---- MODULE Spec2Model ----
(***************************************************************************)
(* A model of the RSS ingestion pipeline of black-news                     *)
(* (src/core/rss_parser.py, src/core/database.py,                          *)
(* src/core/rss_source_manager.py, src/core/scheduler.py).                 *)
(*                                                                         *)
(* The specifications of the module:                                       *)
(*   SpecNorm      the URL normalizer, applied to pairs of URLs            *)
(*   SpecMonitor   the fetch monitor's counters and health classification  *)
(*   Spec          fetch cycles run by the threads that share one RSSParser*)
(*   SpecFanOut    one fetch cycle over every source, run to its end       *)
(*   SpecSched     start(), stop() and the timer chains of the scheduler   *)
(*   SpecSchedFair the same with timers that fire and tasks that end       *)
(*   SpecHist      the task monitor's history under concurrent task runs   *)
(*   SpecRate      coroutines calling RateLimiter.acquire()                *)
(*   SpecRateFair  the same with a clock that runs and sleeps that end     *)
(*   SpecEntry     one entry or draft through the steps of the entry loop  *)
(*   SpecRetry     one call of a function wrapped by retry_on_failure      *)
(***************************************************************************)
EXTENDS Integers, Sequences, FiniteSets, TLC

VARIABLES
    url_a, url_b,       \* SpecNorm: the two URLs handed to _normalize_url
    norm_a, norm_b,     \* SpecNorm: what _normalize_url returned for them
    norm_pc,            \* SpecNorm: "input" before the calls, "normalized" after
    metrics,            \* RSSMonitor.metrics of the shared RSSParser
    health_out,         \* what get_health_status() last returned; "none" once
                        \* a later record_fetch_result made that answer stale
    now,                \* datetime.utcnow(), a logical clock
    enabled,            \* ids of the sources rss_sources.json has enabled
    news,               \* table news: rows [id, url, title]
    last_fetched,       \* rss_sources.last_fetched per source, 0 for NULL
    fetch_logs,         \* table fetch_logs, in insertion order
    th,                 \* per thread: where its fetch cycle stands
    active,             \* the threads that run a fetch cycle
    served,             \* the entries the feeds may carry
    db_faults,          \* whether a database statement may raise
    readable,           \* whether rss_sources.json can be read and parsed
    service_metrics,    \* RSSMonitor.metrics of the RSSParser that RSSService
                        \* constructs for itself
    observed,           \* per url: _save_news calls that returned its id
    raced,              \* urls two threads were about to insert at once
    is_running,         \* SimpleScheduler.is_running
    timers,             \* SimpleScheduler.timers: per task id the registered
                        \* timer (the chain it belongs to), 0 when absent
    chain,              \* per task and timer chain: where the chain's
                        \* current threading.Timer thread stands
    overrun,            \* the tasks whose run_task may be executing when
                        \* stop() is called
    max_requests,       \* RateLimiter.max_requests
    time_window,        \* RateLimiter.time_window
    requests,           \* RateLimiter.requests: the deque of timestamps
    callers,            \* per coroutine calling acquire(): where it stands
    granted,            \* the timestamps acquire() has recorded, all of them
    in_entry,           \* a feed entry handed to the standardizer
    in_draft,           \* a draft (news_data) handed to the validator
    out_draft,          \* the draft sanitize_news_data returned
    verdict,            \* what validate_news_data did with in_draft
    dup,                \* what is_duplicate answered for the draft's URL
    fn_pc,              \* how far the entry or draft has been taken
    task_history,       \* TaskMonitor.task_history
    runner,             \* per thread: where its run of a scheduler task stands
    started,            \* the record_task_start calls made so far
    manual_result,      \* what trigger_manual_fetch last returned
    retry               \* a call of a function wrapped by retry_on_failure

normVars == <<url_a, url_b, norm_a, norm_b, norm_pc>>
monVars == <<metrics, health_out>>

envVars == <<enabled, active, served, db_faults, readable, service_metrics>>
pipeVars == <<enabled, news, last_fetched, fetch_logs, th,
              active, served, db_faults, readable, service_metrics,
              observed, raced>>

schedVars == <<is_running, timers, chain, overrun>>
\* the components outside the parser, its storage and its monitor
rateVars == <<max_requests, time_window, requests, callers, granted>>
draftVars == <<in_entry, in_draft, out_draft, verdict, dup, fn_pc>>
histVars == <<task_history, runner, started, manual_result>>
retryVars == <<retry>>
restVars == <<schedVars, rateVars, draftVars, histVars, retryVars>>

\* what the scheduler's steps leave alone, and the limiter's
nonSchedVars == <<normVars, monVars, now, pipeVars, rateVars, draftVars, histVars,
                  retryVars>>
nonRateVars == <<normVars, monVars, pipeVars, schedVars, draftVars, histVars,
                 retryVars>>
nonDraftVars == <<normVars, monVars, envVars, last_fetched, fetch_logs, th,
                  observed, raced, schedVars, rateVars, histVars, retryVars>>
nonHistVars == <<normVars, monVars, now, pipeVars, schedVars, rateVars, draftVars,
                 retryVars>>
nonRetryVars == <<normVars, monVars, now, pipeVars, schedVars, rateVars, draftVars,
                  histVars>>

vars == <<url_a, url_b, norm_a, norm_b, norm_pc, metrics, health_out, now,
          enabled, news, last_fetched, fetch_logs, th,
          active, served, db_faults, readable, service_metrics,
          observed, raced,
          is_running, timers, chain, overrun,
          max_requests, time_window, requests, callers, granted,
          in_entry, in_draft, out_draft, verdict, dup, fn_pc,
          task_history, runner, started, manual_result, retry>>

(***************************************************************************)
(* URLs.  A URL is kept as urlparse() splits it: scheme, netloc, path and  *)
(* the query as the sequence of its name=value segments, each segment a    *)
(* pair of the raw (still percent-encoded) name and value.  The params and *)
(* fragment components are handed through by _normalize_url untouched and  *)
(* are left out.  Two URL strings are equal iff their records are equal.   *)
(***************************************************************************)
MkUrl(scheme, netloc, path, query) ==
    [scheme |-> scheme, netloc |-> netloc, path |-> path, query |-> query]

\* The empty string as a URL (also what a missing link ends up as)
NoUrl == MkUrl("", "", "", <<>>)

\* str.lower() on the parameter names the model uses
lower(name) == IF name = "Ref" THEN "ref" ELSE name

\* urllib.parse.unquote applied after replacing '+' by ' ' (parse_qsl)
unquote_plus(tok) ==
    CASE tok = "%20" -> " "
      [] tok = "+"   -> " "
      [] OTHER       -> tok

\* urllib.parse.quote_plus (urlencode's default quote_via)
quote_plus(tok) == IF tok = " " THEN "+" ELSE tok

tracking_params ==
    {"utm_source", "utm_medium", "utm_campaign", "utm_term", "utm_content",
     "fbclid", "gclid", "msclkid", "trk", "tracking", "ref"}

\* a denylist that forgot every name but the utm_* ones
_is_tracking_param_utm_only(param_name) ==
    lower(param_name) \in
        {"utm_source", "utm_medium", "utm_campaign", "utm_term", "utm_content"}

\* DeduplicationManager._is_tracking_param
_is_tracking_param(param_name) == lower(param_name) \in tracking_params

\* parse_qsl with keep_blank_values=False: a segment with an empty value is
\* dropped, the others are decoded, in order.
parse_qsl(query) ==
    LET kept == SelectSeq(query, LAMBDA p : p[2] # "")
    IN  [i \in 1..Len(kept) |-> <<unquote_plus(kept[i][1]), unquote_plus(kept[i][2])>>]

\* parse_qs: a dict name -> list of values.  A Python dict keeps its keys in
\* the order of first insertion: the dict is a sequence of <<name, values>>.
RECURSIVE parse_qs_into(_, _)
parse_qs_into(pairs, dict) ==
    IF pairs = <<>> THEN dict
    ELSE LET p == Head(pairs)
         IN  IF \E i \in 1..Len(dict) : dict[i][1] = p[1]
             THEN parse_qs_into(Tail(pairs),
                      [i \in 1..Len(dict) |->
                          IF dict[i][1] = p[1]
                          THEN <<dict[i][1], Append(dict[i][2], p[2])>>
                          ELSE dict[i]])
             ELSE parse_qs_into(Tail(pairs), Append(dict, <<p[1], <<p[2]>> >>))

parse_qs(query) == parse_qs_into(parse_qsl(query), <<>>)

\* urlencode(dict, doseq=True): name=value for every value of every name
RECURSIVE urlencode(_)
urlencode(dict) ==
    IF dict = <<>> THEN <<>>
    ELSE LET k == Head(dict)[1]
             vs == Head(dict)[2]
         IN  [i \in 1..Len(vs) |-> <<quote_plus(k), quote_plus(vs[i])>>]
             \o urlencode(Tail(dict))

\* DeduplicationManager._normalize_url
_normalize_url(url) ==
    LET query_params    == parse_qs(url.query)
        filtered_params == SelectSeq(query_params,
                               LAMBDA kv : ~ _is_tracking_param(kv[1]))
    IN  MkUrl(url.scheme, url.netloc, url.path, urlencode(filtered_params))


(***************************************************************************)
(* The fetch monitor (RSSMonitor).                                         *)
(***************************************************************************)
\* RSSMonitor.__init__; last_fetch_time 0 stands for None
NewMetrics ==
    [total_feeds |-> 0, successful_feeds |-> 0, failed_feeds |-> 0,
     total_news |-> 0, new_news |-> 0, last_fetch_time |-> 0]

\* result.get('total_items', 0) / result.get('new_items', 0): a failure
\* summary carries neither key
ResultGet(result, key) ==
    IF key \in DOMAIN result THEN result[key] ELSE 0

\* a recorder that counts every outcome as a successful feed as well
record_fetch_result_counts_all_successful(m, result, utcnow) ==
    [m EXCEPT !.total_feeds = @ + 1,
              !.successful_feeds = @ + 1,
              !.failed_feeds = IF result.success THEN @ ELSE @ + 1,
              !.last_fetch_time = utcnow]

\* RSSMonitor.record_fetch_result: the metrics after recording `result` at
\* time `utcnow`
record_fetch_result(m, result, utcnow) ==
    LET m1 == [m EXCEPT !.total_feeds = @ + 1]
        m2 == IF result.success
              THEN [m1 EXCEPT !.successful_feeds = @ + 1,
                              !.total_news = @ + ResultGet(result, "total_items"),
                              !.new_news = @ + ResultGet(result, "new_items")]
              ELSE [m1 EXCEPT !.failed_feeds = @ + 1]
    IN  [m2 EXCEPT !.last_fetch_time = utcnow]

\* success_rate >= 0.8 with the threshold read as "more than 0.8"
RateAtLeastStrict(successful, total, num, den) == successful * den > num * total

\* success_rate >= num/den for success_rate = successful / total.  Python
\* divides two ints into the double nearest the quotient and 0.8 and 0.5 are
\* the doubles nearest 4/5 and 1/2, so for counters far below 2^53 the float
\* comparison agrees with the comparison of the fractions.
RateAtLeast(successful, total, num, den) == successful * den >= num * total

\* RSSMonitor.get_health_status
get_health_status(m) ==
    IF m.total_feeds = 0 THEN "unknown"
    ELSE IF RateAtLeast(m.successful_feeds, m.total_feeds, 4, 5) THEN "healthy"
    ELSE IF RateAtLeast(m.successful_feeds, m.total_feeds, 1, 2) THEN "degraded"
    ELSE "unhealthy"

\* the outcome summaries _fetch_single_feed builds (lines 330-335, 345-349)
SuccessResult(source, new_items, total_items) ==
    [source |-> source, success |-> TRUE,
     new_items |-> new_items, total_items |-> total_items]
FailureResult(source, error) ==
    [source |-> source, success |-> FALSE, error |-> error]

InitMonitorIdle ==
    /\ metrics = NewMetrics
    /\ health_out = "none"
    /\ now = 1

(***************************************************************************)
(* The ingestion pipeline (RSSParser) and its storage.                     *)
(*                                                                         *)
(* One RSSParser, one database and one RSSMonitor are shared by the        *)
(* threads that run fetch cycles: the scheduler's timer thread             *)
(* (SimpleScheduler._rss_fetch_task) and the web thread of a manual        *)
(* trigger (SimpleScheduler.trigger_manual_fetch).  Each runs              *)
(* asyncio.run(fetch_all_feeds()) on an event loop of its own.  Inside one *)
(* loop the per-source tasks never suspend (session.get and the sqlite     *)
(* calls block, the awaited coroutines hold no real await) unless the      *)
(* retry wrapper sleeps, so the loop runs them one after the other in      *)
(* creation order; the threads interleave at every database statement.     *)
(***************************************************************************)
MaxSources == 2
MaxEntries == 2

Threads == {"timer", "manual"}
Sources == 1..MaxSources

\* @retry_on_failure(max_retries=3, delay=2, exceptions=(RSSFetchError, RSSParseError))
max_retries == 3
delay == 2
backoff == 2
retry_exceptions == {"RSSFetchError", "RSSParseError"}

\* the subclasses of Exception the model raises
ExceptionClasses ==
    {"RSSFetchError", "RSSParseError", "ValueError", "AttributeError", "sqlite3.Error"}

\* the clock counts half days: timedelta(days=1) is two ticks
\* NoDate: no value; BadDate: a time tuple datetime() refuses
NoDate == -1
BadDate == -2
OneDay == 2

\* RSSSource.url of source s: every feed is served by the same host
SourceUrl(s) == MkUrl("https", "x.com", "/feed", <<<<"id", s>>>>)

\* the article URLs the bounded feeds link to
UrlX  == MkUrl("https", "x.com", "/a", <<>>)
UrlXT == MkUrl("https", "x.com", "/a", <<<<"utm_source", "1">>>>)
UrlY  == MkUrl("https", "x.com", "/b", <<>>)
RelY  == MkUrl("", "", "/b", <<>>)
ArticleUrls == {UrlX, UrlXT, UrlY}

(* Long texts (content) are kept as runs: <<[ch, n], ...>> is n times the  *)
(* piece ch, then the next run.  The pieces are "a" and "b" (a letter),    *)
(* " " (a whitespace character), "." and "<b>" (a tag, three characters).  *)
(* No run is empty and no two neighbours have the same piece, so equal     *)
(* texts have equal runs.                                                  *)
Run(ch, n) == [ch |-> ch, n |-> n]

\* the runs of a text given as any sequence of runs
RECURSIVE Merge(_)
Merge(runs) ==
    IF runs = <<>> THEN <<>>
    ELSE LET h == Head(runs)
             rest == Merge(Tail(runs))
         IN  IF h.n = 0 THEN rest
             ELSE IF rest # <<>> /\ rest[1].ch = h.ch
             THEN <<Run(h.ch, h.n + rest[1].n)>> \o Tail(rest)
             ELSE <<h>> \o rest

\* len(text)
RECURSIVE len(_)
len(runs) ==
    IF runs = <<>> THEN 0
    ELSE (IF Head(runs).ch = "<b>" THEN 3 ELSE 1) * Head(runs).n + len(Tail(runs))

\* text.strip()
strip_text(runs) ==
    LET left == IF runs # <<>> /\ runs[1].ch = " " THEN Tail(runs) ELSE runs
    IN  IF left # <<>> /\ left[Len(left)].ch = " "
        THEN SubSeq(left, 1, Len(left) - 1) ELSE left

\* re.sub(r'\s+', ' ', text)
collapse_whitespace(runs) ==
    [i \in DOMAIN runs |-> IF runs[i].ch = " " THEN Run(" ", 1) ELSE runs[i]]

\* text[:k] of a text without tags
RECURSIVE Take(_, _)
Take(runs, k) ==
    IF runs = <<>> \/ k = 0 THEN <<>>
    ELSE IF Head(runs).n <= k
    THEN <<Head(runs)>> \o Take(Tail(runs), k - Head(runs).n)
    ELSE <<Run(Head(runs).ch, k)>>

\* RSSParser._clean_html: re.sub(r'<[^>]+>', '', html_text).strip()
_clean_html(runs) ==
    strip_text(Merge(SelectSeq(runs, LAMBDA r : r.ch # "<b>")))

\* the parsed feed entries the bounded feeds are made of: has_link is
\* hasattr(entry, 'link'); a date field is NoDate when the entry lacks it; a
\* text the entry lacks is empty
MkEntry(has_link, link, title) ==
    [has_link |-> has_link, link |-> link, title |-> title,
     published_parsed |-> NoDate, updated_parsed |-> NoDate,
     created_parsed |-> NoDate, content |-> <<>>, summary |-> <<>>]

FeedEntries ==
    {MkEntry(TRUE, UrlX, "t"),  MkEntry(TRUE, UrlXT, " t"),
     MkEntry(TRUE, RelY, "t"),  MkEntry(TRUE, UrlX, " "),
     MkEntry(TRUE, NoUrl, "t"), MkEntry(FALSE, NoUrl, "t")}

\* str.strip() on the title tokens of the model
strip(text) ==
    CASE text = " "  -> ""
      [] text = " t" -> "t"
      [] OTHER       -> text

\* re.sub(r'\s+', ' ', text) on the title tokens of the model
collapse(text) ==
    CASE text = "t  t" -> "t t"
      [] OTHER         -> text

\* RSSParser._extract_title
_extract_title(entry) == strip(entry.title)

\* the field is there, is not empty and datetime(*date_tuple[:6]) takes it
Convertible(date_tuple) == date_tuple \notin {NoDate, BadDate}

\* an extractor that probes the updated time first
_extract_published_date_updated_first(entry, utcnow) ==
    IF Convertible(entry.updated_parsed) THEN entry.updated_parsed
    ELSE IF Convertible(entry.published_parsed) THEN entry.published_parsed
    ELSE IF Convertible(entry.created_parsed) THEN entry.created_parsed
    ELSE utcnow

\* RSSParser._extract_published_date: the first of the three parsed dates
\* that is present, else the current time
_extract_published_date(entry, utcnow) ==
    IF Convertible(entry.published_parsed) THEN entry.published_parsed
    ELSE IF Convertible(entry.updated_parsed) THEN entry.updated_parsed
    ELSE IF Convertible(entry.created_parsed) THEN entry.created_parsed
    ELSE utcnow

\* RSSParser._build_absolute_url: an empty link gives None, an http(s) link
\* is kept, any other is joined to the feed URL (urljoin takes the scheme
\* and host of the base for a host-relative link)
_build_absolute_url(url, base_url) ==
    IF url = NoUrl THEN NoUrl
    ELSE IF url.scheme \in {"http", "https"} THEN url
    ELSE IF url.scheme # "" THEN url
    ELSE IF url.netloc # "" THEN [url EXCEPT !.scheme = base_url.scheme]
    ELSE [url EXCEPT !.scheme = base_url.scheme, !.netloc = base_url.netloc]

\* RSSParser._extract_content: entry.content[0].value, else the summary;
\* tags removed, stripped
_extract_content(entry) ==
    strip_text(_clean_html(IF entry.content # <<>> THEN entry.content
                           ELSE entry.summary))

\* RSSParser._standardize_news_entry (entry.link raises AttributeError when
\* the entry has no link: the caller tests has_link first)
_standardize_news_entry(entry, source, utcnow) ==
    [url          |-> _build_absolute_url(entry.link, SourceUrl(source)),
     title        |-> _extract_title(entry),
     content      |-> _extract_content(entry),
     published_at |-> _extract_published_date(entry, utcnow),
     source_id    |-> source]

\* NewsValidator._is_valid_url
_is_valid_url(url) == url.scheme # "" /\ url.netloc # ""

\* a validator without the test of the title
validate_news_data_accepts_untitled(news_data, utcnow) ==
    (IF news_data.url = NoUrl THEN {"url_empty"} ELSE {})
    \cup (IF news_data.url.scheme = "" \/ news_data.url.netloc = ""
          THEN {"url_format"} ELSE {})
    \cup (IF /\ news_data.published_at # NoDate
             /\ news_data.published_at > utcnow + OneDay
          THEN {"published_in_future"} ELSE {})

\* a validator that also rejects a publication time exactly one day ahead
validate_news_data_rejects_boundary(news_data, utcnow) ==
    (IF news_data.url = NoUrl THEN {"url_empty"} ELSE {})
    \cup (IF news_data.title = "" THEN {"title_empty"} ELSE {})
    \cup (IF news_data.url.scheme = "" \/ news_data.url.netloc = ""
          THEN {"url_format"} ELSE {})
    \cup (IF /\ news_data.published_at # NoDate
             /\ news_data.published_at >= utcnow + OneDay
          THEN {"published_in_future"} ELSE {})

\* NewsValidator.validate_news_data: the error list; ValueError is raised
\* when it is not empty
validate_news_data(news_data, utcnow) ==
    (IF news_data.url = NoUrl THEN {"url_empty"} ELSE {})
    \cup (IF news_data.title = "" THEN {"title_empty"} ELSE {})
    \cup (IF ~ _is_valid_url(news_data.url) THEN {"url_format"} ELSE {})
    \cup (IF /\ news_data.published_at # NoDate
             /\ news_data.published_at > utcnow + OneDay
          THEN {"published_in_future"} ELSE {})

max_length == 10000
ellipsis == <<Run(".", 3)>>

\* a truncation that makes room for the marker inside the cap
truncate_within_cap(text) ==
    IF len(text) > max_length
    THEN Merge(Take(text, max_length - 3) \o ellipsis)
    ELSE text

\* sanitize_news_data, lines 216-220: content[:max_length] + '...' when
\* len(content) > max_length
truncate(text) ==
    IF len(text) > max_length
    THEN Merge(Take(text, max_length) \o ellipsis)
    ELSE text

\* a sanitizer that collapses and truncates but does not strip the ends
sanitize_news_data_without_strip(news_data) ==
    [news_data EXCEPT !.title = collapse(@),
                      !.content = truncate(collapse_whitespace(@))]

\* NewsValidator.sanitize_news_data on the fields the model keeps: title and
\* content are stripped and their whitespace runs collapsed, then the
\* content is truncated
sanitize_news_data(news_data) ==
    [news_data EXCEPT !.title = collapse(strip(@)),
                      !.content = truncate(collapse_whitespace(strip_text(@)))]

NoDraft ==
    [url |-> NoUrl, title |-> "", content |-> <<>>, published_at |-> NoDate,
     source_id |-> 0]

\* the rows of table news with the given url (url TEXT UNIQUE NOT NULL)
RowsWithUrl(rows, url) == {r \in rows : r.url = url}

\* the normalized urls of the rows
NormalizedUrls(rows) == {_normalize_url(r.url) : r \in rows}

\* a lookup that answers "duplicate" when the statement raises
_check_database_duplicate_fail_closed(rows, url, db_ok) ==
    IF db_ok THEN RowsWithUrl(rows, url) # {} ELSE TRUE

\* DeduplicationManager._check_database_duplicate: whether SELECT id FROM
\* news WHERE url = ? finds a row; False when the statement raises
_check_database_duplicate(rows, url, db_ok) ==
    IF db_ok THEN RowsWithUrl(rows, url) # {} ELSE FALSE

\* DeduplicationManager.is_duplicate: the answer and the number of lookups
\* made in the database
is_duplicate(rows, url, db_ok) ==
    IF url = NoUrl THEN [answer |-> TRUE, lookups |-> 0]
    ELSE [answer |-> _check_database_duplicate(rows, _normalize_url(url), db_ok),
          lookups |-> 1]

\* a plain INSERT: the row is added even when the url is already stored
InsertAlways(rows, news_data) ==
    rows \cup {[id |-> Cardinality(rows) + 1, url |-> news_data.url,
                title |-> news_data.title, content |-> news_data.content]}

\* an INSERT OR REPLACE: a stored row with the url gives way to the new one
InsertOrReplace(rows, news_data) ==
    (rows \ RowsWithUrl(rows, news_data.url))
        \cup {[id |-> Cardinality(rows) + 1, url |-> news_data.url,
                title |-> news_data.title, content |-> news_data.content]}

\* INSERT OR IGNORE INTO news: the table afterwards.  The UNIQUE constraint
\* on url makes the statement a no-op when a row with the url exists; ids
\* are AUTOINCREMENT and no row is ever deleted.
InsertOrIgnore(rows, news_data) ==
    IF RowsWithUrl(rows, news_data.url) # {} THEN rows
    ELSE rows \cup {[id |-> Cardinality(rows) + 1, url |-> news_data.url,
                     title |-> news_data.title, content |-> news_data.content]}

\* an entry handler that lets AttributeError through
entry_except_misses_attribute_error(exc) ==
    exc \in ExceptionClasses \ {"AttributeError"}

\* `except Exception` around one entry (_process_feed_entries, line 419)
entry_except(exc) == exc \in ExceptionClasses

\* a handler that lets the retryable errors through to the retry wrapper
fetch_except_not_retryable(exc) == exc \in ExceptionClasses \ retry_exceptions

\* `except Exception` of _fetch_single_feed (line 342)
fetch_except(exc) == exc \in ExceptionClasses

\* the sources of S in the order of the file
RECURSIVE InFileOrder(_)
InFileOrder(S) ==
    IF S = {} THEN <<>>
    ELSE LET first == CHOOSE x \in S : \A y \in S : x <= y
         IN  <<first>> \o InFileOrder(S \ {first})

\* a loader that reports the sources although the file could not be read
get_enabled_rss_sources_ignores_error(S, file_ok) == InFileOrder(S)

\* get_enabled_rss_sources: the enabled sources in the order of the file, and
\* [] when loading the file raises
get_enabled_rss_sources(S, file_ok) ==
    IF file_ok THEN InFileOrder(S) ELSE <<>>

\* whether a database statement goes through (TRUE) or raises (FALSE)
DbOutcomes == IF db_faults THEN BOOLEAN ELSE {TRUE}

ThreadIdle ==
    [pc |-> "idle",
     pending |-> <<>>,          \* sources whose task has not finished yet
     results |-> <<>>,          \* the finished tasks' results, in task order
     source |-> 0,              \* the running task's source
     attempt |-> 0,             \* retry wrapper: attempt
     current_delay |-> 0,       \* retry wrapper: current_delay
     sleeps |-> <<>>,           \* retry wrapper: the delays slept so far
     gets |-> 0,                \* HTTP GETs issued by the running task
     total_items |-> 0,         \* len(feed_data.entries)
     remaining |-> 0,           \* entries the loop has not reached yet
     new_news_count |-> 0,
     news_data |-> NoDraft,
     success |-> FALSE,         \* which summary the task is about to build
     error |-> "",
     \* history of the running task, kept for the properties
     news_before |-> {},        \* table news when the task started
     fresh |-> {},              \* normalized urls of the valid entries seen
                                \* that news_before does not hold
     db_failed |-> FALSE,       \* a database statement of the task raised
     logged |-> 0,              \* rows the task has appended to fetch_logs
     dropped |-> FALSE,         \* an entry of the run was rejected or failed
     saved_after_drop |-> FALSE]

InitPipelineIdle ==
    /\ enabled = {}
    /\ news = {}
    /\ last_fetched = [s \in Sources |-> 0]
    /\ fetch_logs = <<>>
    /\ th = [t \in Threads |-> ThreadIdle]
    /\ active = {}
    /\ served = {}
    /\ db_faults = FALSE
    /\ readable = TRUE
    /\ service_metrics = NewMetrics
    /\ observed = [u \in ArticleUrls |-> 0]
    /\ raced = {}

\* the finished task hands `result` to gather and the loop goes on
TaskDone(rec, result) ==
    [rec EXCEPT !.results = Append(@, result), !.pending = Tail(@), !.pc = "gather"]

\* a run whose exceptions leave _fetch_single_feed and the wrapper unhandled
OnException_unhandled(rec, exc) ==
    TaskDone(rec, [source |-> rec.source, exception |-> exc])

\* An exception raised inside the try block of _fetch_single_feed: the
\* function's own handler takes it if it catches the class; otherwise it
\* reaches the retry wrapper, which sleeps and calls again while attempts are
\* left and the class is retryable, and re-raises it otherwise (gather then
\* returns the exception object as the task's result).
OnException(rec, exc) ==
    IF fetch_except(exc)
    THEN [rec EXCEPT !.success = FALSE, !.error = exc, !.pc = "update_status"]
    ELSE IF exc \in retry_exceptions /\ rec.attempt < max_retries
    THEN [rec EXCEPT !.sleeps = Append(@, rec.current_delay),
                     !.current_delay = @ * backoff,
                     !.attempt = @ + 1,
                     !.pc = "request"]
    ELSE TaskDone(rec, [source |-> rec.source, exception |-> exc])

\* fetch_all_feeds up to gather: the enabled sources are loaded (the loader
\* answers [] on any error) and one task per source is created
StartCycle(t) ==
    /\ t \in active
    /\ th[t].pc = "idle"
    /\ LET enabled_sources == get_enabled_rss_sources(enabled, readable)
       IN  th' = [th EXCEPT ![t] =
                    IF enabled_sources = <<>>
                    THEN [ThreadIdle EXCEPT !.pc = "returned"]
                    ELSE [ThreadIdle EXCEPT !.pc = "gather",
                                            !.pending = enabled_sources]]
    /\ UNCHANGED <<news, last_fetched, fetch_logs, metrics,
                   health_out, now, observed, raced, envVars, normVars, restVars>>

\* the event loop starts the next task: the retry wrapper calls
\* _fetch_single_feed for the first time
StartTask(t) ==
    /\ th[t].pc = "gather"
    /\ th[t].pending # <<>>
    /\ th' = [th EXCEPT ![t] =
                [ThreadIdle EXCEPT !.pc = "request",
                                   !.pending = th[t].pending,
                                   !.results = th[t].results,
                                   !.source = Head(th[t].pending),
                                   !.current_delay = delay,
                                   !.news_before = news]]
    /\ UNCHANGED <<news, last_fetched, fetch_logs, metrics,
                   health_out, now, observed, raced, envVars, normVars, restVars>>

\* _make_request calls self.session.get: the GET goes out.  requests is a
\* blocking library: the call does not return to the event loop, the thread
\* stays inside it until the answer is there.
Request(t) ==
    /\ th[t].pc = "request"
    /\ th' = [th EXCEPT ![t] = [@ EXCEPT !.gets = @ + 1, !.pc = "get"]]
    /\ UNCHANGED <<news, last_fetched, fetch_logs, metrics, health_out,
                   now, observed, raced, envVars, normVars, restVars>>

\* session.get returns or raises: the answer is an HTTP error
\* (RSSFetchError) or a body for feedparser; the round trip took time.
Response(t) ==
    /\ th[t].pc = "get"
    /\ now' = now + 1
    /\ \E answer \in {"error", "body"} :
         th' = [th EXCEPT ![t] =
                  IF answer = "error"
                  THEN OnException(th[t], "RSSFetchError")
                  ELSE [th[t] EXCEPT !.pc = "parse"]]
    /\ UNCHANGED <<news, last_fetched, fetch_logs, metrics,
                   health_out, observed, raced, envVars, normVars, restVars>>

\* a parser that hands on a feed without entries
_parse_feed_accepts_empty(n) == "feed"

\* _parse_feed on a document that feedparser turns into n entries: the feed
\* is returned, or RSSParseError is raised when there is no entry
_parse_feed(n) == IF n = 0 THEN "RSSParseError" ELSE "feed"

\* feed_data = self._parse_feed(response.content, source.url)
Parse(t) ==
    /\ th[t].pc = "parse"
    /\ \E n \in 0..MaxEntries :
         th' = [th EXCEPT ![t] =
                  IF _parse_feed(n) = "RSSParseError"
                  THEN OnException(th[t], "RSSParseError")
                  ELSE [th[t] EXCEPT !.pc = "entries", !.total_items = n,
                                     !.remaining = n]]
    /\ UNCHANGED <<news, last_fetched, fetch_logs, metrics,
                   health_out, now, observed, raced, envVars, normVars, restVars>>

\* an exception raised while one entry is processed: the entry's handler
\* drops the entry and the loop goes on; what it does not catch leaves
\* _process_feed_entries and is raised inside _fetch_single_feed's try block
OnEntryException(rec, exc) ==
    IF entry_except(exc)
    THEN [rec EXCEPT !.dropped = TRUE, !.pc = "entries"]
    ELSE OnException(rec, exc)

\* One turn of the loop of _process_feed_entries up to the call of
\* _save_news: standardize, validate, sanitize, dedup check.  The dedup
\* lookup reads the table; when the lookup raises, is_duplicate answers
\* False.
ProcessEntry(t) ==
    /\ th[t].pc = "entries"
    /\ th[t].remaining > 0
    /\ \E entry \in served, db_ok \in DbOutcomes :
         LET rec  == [th[t] EXCEPT !.remaining = @ - 1]
             std  == _standardize_news_entry(entry, rec.source, now)
             data == sanitize_news_data(std)
             seen == [rec EXCEPT !.fresh =
                         IF _normalize_url(data.url) \in NormalizedUrls(rec.news_before)
                         THEN @ ELSE @ \cup {_normalize_url(data.url)}]
             looked == [seen EXCEPT !.db_failed = @ \/ ~db_ok]
             duplicate == is_duplicate(news, data.url, db_ok).answer
         IN  IF ~entry.has_link
             THEN /\ th' = [th EXCEPT ![t] = OnEntryException(rec, "AttributeError")]
                  /\ raced' = raced
             ELSE IF validate_news_data(std, now) # {}
             THEN /\ th' = [th EXCEPT ![t] = [rec EXCEPT !.dropped = TRUE]]
                  /\ raced' = raced
             ELSE IF duplicate
             THEN /\ th' = [th EXCEPT ![t] = looked]
                  /\ raced' = raced
             ELSE /\ th' = [th EXCEPT ![t] =
                              [looked EXCEPT !.pc = "save", !.news_data = data]]
                  /\ raced' = IF \E u \in Threads \ {t} :
                                    /\ th[u].pc = "save"
                                    /\ th[u].news_data.url = data.url
                              THEN raced \cup {data.url} ELSE raced
    /\ UNCHANGED <<news, last_fetched, fetch_logs, metrics,
                   health_out, now, observed, envVars, normVars, restVars>>

\* _save_news, the INSERT OR IGNORE statement: it raises (caught, None is
\* returned), or it is ignored (rowcount 0, None is returned), or it adds
\* the row
SaveInsert(t) ==
    /\ th[t].pc = "save"
    /\ \E db_ok \in DbOutcomes :
         LET url == th[t].news_data.url
             after == InsertOrIgnore(news, th[t].news_data)
         IN  IF ~db_ok
             THEN /\ th' = [th EXCEPT ![t] =
                              [@ EXCEPT !.db_failed = TRUE, !.dropped = TRUE,
                                        !.pc = "entries"]]
                  /\ news' = news
             ELSE /\ news' = after
                  /\ th' = [th EXCEPT ![t] =
                              [@ EXCEPT !.pc =
                                  IF after # news THEN "select" ELSE "entries"]]
    /\ UNCHANGED <<last_fetched, fetch_logs, metrics, health_out,
                   now, observed, raced, envVars, normVars, restVars>>

\* _save_news after an insert: SELECT id FROM news WHERE url = ?; the id is
\* returned and the entry counted, unless the statement raises
SaveSelect(t) ==
    /\ th[t].pc = "select"
    /\ \E db_ok \in DbOutcomes :
         LET url == th[t].news_data.url
             result == RowsWithUrl(news, url)
         IN  IF ~db_ok \/ result = {}
             THEN /\ th' = [th EXCEPT ![t] =
                              [@ EXCEPT !.db_failed = @ \/ ~db_ok,
                                        !.dropped = @ \/ ~db_ok,
                                        !.pc = "entries"]]
                  /\ observed' = observed
             ELSE /\ th' = [th EXCEPT ![t] =
                              [@ EXCEPT !.new_news_count = @ + 1,
                                        !.saved_after_drop = @ \/ th[t].dropped,
                                        !.pc = "entries"]]
                  /\ observed' = [observed EXCEPT ![url] = @ + 1]
    /\ UNCHANGED <<news, last_fetched, fetch_logs, metrics,
                   health_out, now, raced, envVars, normVars, restVars>>

\* the loop is over: _process_feed_entries returns new_news_count
EntriesDone(t) ==
    /\ th[t].pc = "entries"
    /\ th[t].remaining = 0
    /\ th' = [th EXCEPT ![t] = [@ EXCEPT !.success = TRUE, !.pc = "update_status"]]
    /\ UNCHANGED <<news, last_fetched, fetch_logs, metrics,
                   health_out, now, observed, raced, envVars, normVars, restVars>>

\* _update_fetch_status, first statement: UPDATE rss_sources SET
\* last_fetched = now, on the success path and on the failure path alike.
\* When it raises, the handler logs and the INSERT is skipped.
UpdateLastFetched(t) ==
    /\ th[t].pc = "update_status"
    /\ \E db_ok \in DbOutcomes :
         IF db_ok
         THEN /\ last_fetched' = [last_fetched EXCEPT ![th[t].source] = now]
              /\ th' = [th EXCEPT ![t] = [@ EXCEPT !.pc = "insert_log"]]
         ELSE /\ last_fetched' = last_fetched
              /\ th' = [th EXCEPT ![t] = [@ EXCEPT !.db_failed = TRUE, !.pc = "record"]]
    /\ UNCHANGED <<news, fetch_logs, metrics, health_out, now,
                   observed, raced, envVars, normVars, restVars>>

\* a log row that leaves items_fetched at the column's default
fetch_log_row_without_count(source_id, success, items_fetched, error_message, utcnow) ==
    [rss_source_id |-> source_id, success |-> success, items_fetched |-> 0,
     error_message |-> error_message, fetched_at |-> utcnow]

\* the row _update_fetch_status inserts into fetch_logs
fetch_log_row(source_id, success, items_fetched, error_message, utcnow) ==
    [rss_source_id |-> source_id, success |-> success,
     items_fetched |-> items_fetched,
     error_message |-> error_message, fetched_at |-> utcnow]

\* _update_fetch_status, second statement: INSERT INTO fetch_logs, called as
\* (source.id, True, new_news_count) or as (source.id, False, 0, str(e))
InsertLog(t) ==
    /\ th[t].pc = "insert_log"
    /\ \E db_ok \in DbOutcomes :
         IF db_ok
         THEN /\ fetch_logs' = Append(fetch_logs,
                     IF th[t].success
                     THEN fetch_log_row(th[t].source, TRUE, th[t].new_news_count, "", now)
                     ELSE fetch_log_row(th[t].source, FALSE, 0, th[t].error, now))
              /\ th' = [th EXCEPT ![t] = [@ EXCEPT !.logged = @ + 1, !.pc = "record"]]
         ELSE /\ fetch_logs' = fetch_logs
              /\ th' = [th EXCEPT ![t] = [@ EXCEPT !.db_failed = TRUE, !.pc = "record"]]
    /\ UNCHANGED <<news, last_fetched, metrics, health_out, now,
                   observed, raced, envVars, normVars, restVars>>

\* the summary the task is about to return
Summary(rec) ==
    IF rec.success
    THEN SuccessResult(rec.source, rec.new_news_count, rec.total_items)
    ELSE FailureResult(rec.source, rec.error)

\* the summary is built and recorded in the monitor, _fetch_single_feed
\* returns it and the retry wrapper hands it on (line 52)
Record(t) ==
    /\ th[t].pc = "record"
    /\ metrics' = record_fetch_result(metrics, Summary(th[t]), now)
    /\ health_out' = "none"
    /\ th' = [th EXCEPT ![t] = TaskDone(th[t], Summary(th[t]))]
    /\ UNCHANGED <<news, last_fetched, fetch_logs, now,
                   observed, raced, envVars, normVars, restVars>>

\* gather has every task's result: fetch_all_feeds returns the list
GatherDone(t) ==
    /\ th[t].pc = "gather"
    /\ th[t].pending = <<>>
    /\ th' = [th EXCEPT ![t] = [@ EXCEPT !.pc = "returned"]]
    /\ UNCHANGED <<news, last_fetched, fetch_logs, metrics,
                   health_out, now, observed, raced, envVars, normVars, restVars>>

(***************************************************************************)
(* The scheduler (SimpleScheduler): start(), stop() and the timer chains   *)
(* of the periodic tasks.                                                  *)
(*                                                                         *)
(* _start_periodic_task starts a threading.Timer whose thread calls        *)
(* run_task; run_task runs the task and, in its finally block, starts the  *)
(* next Timer and registers it in self.timers under the task id.  Such a   *)
(* succession of timers is a chain.  A chain ends when run_task finds      *)
(* is_running false or when its pending timer is cancelled by stop().      *)
(***************************************************************************)
MaxChains == 2

\* the task ids _start_all_tasks starts
Tasks == {"rss_fetch", "news_analysis", "health_check"}
Chains == 1..MaxChains

\* the chains of task_id with a timer thread inside task_func
RunsInProgress(task_id) == {i \in Chains : chain[task_id][i] = "task"}

\* the chains of task_id still alive: a timer pending or its thread running
LiveChains(task_id) == {i \in Chains : chain[task_id][i] # "none"}

\* a run_task that reschedules at the end of its try block, not in finally:
\* a run that raised does not reach it
run_task_reschedules_in_try(exc) == IF exc THEN "none" ELSE "finally"

\* run_task once task_func is over (lines 163-167): an Exception goes to the
\* `except Exception` handler, a normal return to the finally block
run_task_after_task(exc) == IF exc THEN "except" ELSE "finally"

\* SimpleScheduler.__init__
InitSchedStopped ==
    /\ is_running = FALSE
    /\ timers = [k \in Tasks |-> 0]
    /\ chain = [k \in Tasks |-> [i \in Chains |-> "none"]]

InitSchedIdle ==
    /\ InitSchedStopped
    /\ overrun = Tasks

\* a chain slot of task_id that is not in use
FreeChain(task_id) == CHOOSE i \in Chains : chain[task_id][i] = "none"

\* _start_all_tasks: one Timer(0, run_task) per task is started and
\* registered under the task id
_start_all_tasks ==
    /\ \A k \in Tasks : \E i \in Chains : chain[k][i] = "none"
    /\ chain' = [k \in Tasks |-> [chain[k] EXCEPT ![FreeChain(k)] = "pending"]]
    /\ timers' = [k \in Tasks |-> FreeChain(k)]

\* a start() without the test of is_running
start_without_guard ==
    /\ is_running' = TRUE
    /\ _start_all_tasks
    /\ UNCHANGED <<overrun, nonSchedVars>>

\* SimpleScheduler.start: on a running scheduler it logs a warning and
\* returns; on a stopped one is_running is set and _start_all_tasks runs
start ==
    IF is_running
    THEN UNCHANGED vars
    ELSE /\ is_running' = TRUE
         /\ _start_all_tasks
         /\ UNCHANGED <<overrun, nonSchedVars>>

\* SimpleScheduler.stop: on a stopped scheduler it logs a warning and
\* returns; on a running one is_running is cleared, every registered timer
\* is cancelled (which stops it only if it has not fired yet) and the
\* registry is emptied.  The caller picks a moment when no task outside
\* `overrun` is inside run_task.
stop ==
    IF ~is_running
    THEN UNCHANGED vars
    ELSE /\ \A k \in Tasks \ overrun :
               \A i \in Chains : chain[k][i] \in {"none", "pending"}
         /\ is_running' = FALSE
         /\ chain' = [k \in Tasks |-> [i \in Chains |->
                         IF timers[k] = i /\ chain[k][i] = "pending"
                         THEN "none" ELSE chain[k][i]]]
         /\ timers' = [k \in Tasks |-> 0]
         /\ UNCHANGED <<overrun, nonSchedVars>>

\* a pending timer fires: its thread enters run_task, which returns at once
\* when the scheduler is not running (lines 160-161)
Fire(k, i) ==
    /\ chain[k][i] = "pending"
    /\ chain' = [chain EXCEPT ![k][i] = IF is_running THEN "entered" ELSE "none"]
    /\ UNCHANGED <<is_running, timers, overrun, nonSchedVars>>

\* run_task, past its test of is_running, calls task_func (line 164): the
\* run of the task begins
CallTask(k, i) ==
    /\ chain[k][i] = "entered"
    /\ chain' = [chain EXCEPT ![k][i] = "task"]
    /\ UNCHANGED <<is_running, timers, overrun, nonSchedVars>>

\* task_func returns
TaskReturn(k, i) ==
    /\ chain[k][i] = "task"
    /\ chain' = [chain EXCEPT ![k][i] = run_task_after_task(FALSE)]
    /\ UNCHANGED <<is_running, timers, overrun, nonSchedVars>>

\* task_func raises an Exception
TaskRaise(k, i) ==
    /\ chain[k][i] = "task"
    /\ chain' = [chain EXCEPT ![k][i] = run_task_after_task(TRUE)]
    /\ UNCHANGED <<is_running, timers, overrun, nonSchedVars>>

\* `except Exception`: the error is logged and the finally block is next
Except(k, i) ==
    /\ chain[k][i] = "except"
    /\ chain' = [chain EXCEPT ![k][i] = "finally"]
    /\ UNCHANGED <<is_running, timers, overrun, nonSchedVars>>

\* finally: `if self.is_running`
FinallyCheck(k, i) ==
    /\ chain[k][i] = "finally"
    /\ chain' = [chain EXCEPT ![k][i] = IF is_running THEN "resched" ELSE "none"]
    /\ UNCHANGED <<is_running, timers, overrun, nonSchedVars>>

\* finally, inside the if: the next Timer(interval, run_task) is started and
\* registered under the task id
Reschedule(k, i) ==
    /\ chain[k][i] = "resched"
    /\ chain' = [chain EXCEPT ![k][i] = "pending"]
    /\ timers' = [timers EXCEPT ![k] = i]
    /\ UNCHANGED <<is_running, overrun, nonSchedVars>>

(***************************************************************************)
(* The rate limiter (RateLimiter).  acquire() is a coroutine: its callers  *)
(* are tasks of one event loop, which run one at a time and give way only  *)
(* at `await asyncio.sleep`.  time.time() is the clock `now`, in whole     *)
(* seconds.                                                                *)
(***************************************************************************)
MaxCallers == 3
MaxRequests == 2
MaxWindow == 2
MaxTime == 5
MaxGrants == 4

Callers == 1..MaxCallers

\* the deque after `while self.requests and self.requests[0] <= now -
\* self.time_window: self.requests.popleft()`
RECURSIVE Evict(_, _, _)
Evict(deque, t, window) ==
    IF deque # <<>> /\ deque[1] <= t - window
    THEN Evict(Tail(deque), t, window)
    ELSE deque

\* a limit test that lets one request too many through
AtCapacityOffByOne(deque, limit) == Len(deque) > limit

\* `len(self.requests) >= self.max_requests`
AtCapacity(deque, limit) == Len(deque) >= limit

\* a wait computed without subtracting the current time
sleep_time_from_epoch(deque, window, t) == deque[1] + window

\* `sleep_time = self.requests[0] + self.time_window - now`
sleep_time(deque, window, t) == deque[1] + window - t

CallerIdle == [pc |-> "idle", wake_at |-> 0, rechecked |-> FALSE]

InitRateIdle ==
    /\ max_requests = 1
    /\ time_window = 1
    /\ requests = <<>>
    /\ callers = [c \in Callers |-> CallerIdle]
    /\ granted = <<>>

\* One pass through the body of acquire() by caller c, from `now =
\* time.time()` to the sleep or to the append: no await lies between, so no
\* other caller runs in between.
acquire(c) ==
    LET kept == Evict(requests, now, time_window)
    IN  IF AtCapacity(kept, max_requests) /\ sleep_time(kept, time_window, now) > 0
        THEN /\ requests' = kept
             /\ callers' = [callers EXCEPT ![c] =
                              [pc |-> "sleeping",
                               wake_at |-> now + sleep_time(kept, time_window, now),
                               rechecked |-> callers[c].pc = "sleeping"]]
             /\ granted' = granted
        ELSE /\ requests' = Append(kept, now)
             /\ callers' = [callers EXCEPT ![c] = CallerIdle]
             /\ granted' = Append(granted, now)

\* a coroutine calls acquire()
Acquire(c) ==
    /\ callers[c].pc = "idle"
    /\ Len(granted) < MaxGrants
    /\ acquire(c)
    /\ UNCHANGED <<max_requests, time_window, now, nonRateVars>>

\* asyncio.sleep(sleep_time) is over, at the wake time or later: the caller
\* goes through acquire() again (`return await self.acquire()`)
Wake(c) ==
    /\ callers[c].pc = "sleeping"
    /\ now >= callers[c].wake_at
    /\ acquire(c)
    /\ UNCHANGED <<max_requests, time_window, now, nonRateVars>>

\* time passes
RateTick ==
    /\ now < MaxTime
    /\ now' = now + 1
    /\ UNCHANGED <<rateVars, nonRateVars>>

\* time passes beyond MaxTime for as long as a caller's sleep is not over,
\* up to the time by which MaxGrants calls made by MaxTime, each of which
\* can put off a waiting caller by one window, have all been served
RateTickWaiting ==
    /\ now >= MaxTime
    /\ now < MaxTime + MaxWindow * MaxGrants
    /\ \E c \in Callers : callers[c].pc = "sleeping" /\ callers[c].wake_at > now
    /\ now' = now + 1
    /\ UNCHANGED <<rateVars, nonRateVars>>

(***************************************************************************)
(* One entry, or one draft, taken through the steps of one turn of the     *)
(* loop of _process_feed_entries: standardize, validate, sanitize, save.   *)
(***************************************************************************)
MaxClock == 3

\* the entry every bounded entry is a variation of
NoEntry == MkEntry(FALSE, NoUrl, "")

NoAnswer == [answer |-> FALSE, lookups |-> 0, failed |-> FALSE]

InitDraftIdle ==
    /\ in_entry = NoEntry
    /\ in_draft = NoDraft
    /\ out_draft = NoDraft
    /\ verdict = "none"
    /\ dup = NoAnswer
    /\ fn_pc = "idle"

\* news_data = self._standardize_news_entry(entry, source)
Standardize ==
    /\ fn_pc = "entry"
    /\ in_draft' = _standardize_news_entry(in_entry, 1, now)
    /\ fn_pc' = "draft"
    /\ UNCHANGED <<in_entry, out_draft, verdict, dup, now, news, nonDraftVars>>

\* time passes before the draft is validated
DraftTick ==
    /\ fn_pc \in {"entry", "draft"}
    /\ now < MaxClock
    /\ now' = now + 1
    /\ UNCHANGED <<draftVars, news, nonDraftVars>>

\* NewsValidator.validate_news_data(news_data): ValueError or nothing
Validate ==
    /\ fn_pc = "draft"
    /\ verdict' = IF validate_news_data(in_draft, now) = {}
                  THEN "accepted" ELSE "rejected"
    /\ fn_pc' = "validated"
    /\ UNCHANGED <<in_entry, in_draft, out_draft, dup, now, news, nonDraftVars>>

\* news_data = NewsValidator.sanitize_news_data(news_data); the function is
\* applied to every draft here, in the loop only to one that passed validation
Sanitize ==
    /\ fn_pc = "validated"
    /\ out_draft' = sanitize_news_data(in_draft)
    /\ fn_pc' = "sanitized"
    /\ UNCHANGED <<in_entry, in_draft, verdict, dup, now, news, nonDraftVars>>

\* await self.dedup_manager.is_duplicate(news_data['url']): the lookup goes
\* through or raises
CheckDuplicate ==
    /\ fn_pc = "sanitized"
    /\ \E db_ok \in BOOLEAN :
          LET result == is_duplicate(news, out_draft.url, db_ok)
          IN  dup' = [answer |-> result.answer, lookups |-> result.lookups,
                      failed |-> result.lookups > 0 /\ ~db_ok]
    /\ fn_pc' = "checked"
    /\ UNCHANGED <<in_entry, in_draft, out_draft, verdict, now, news, nonDraftVars>>

\* await self._save_news(news_data), for a draft the validator let through
\* and is_duplicate did not call a duplicate
Persist ==
    /\ fn_pc = "checked"
    /\ verdict = "accepted"
    /\ ~dup.answer
    /\ news' = InsertOrIgnore(news, out_draft)
    /\ fn_pc' = "persisted"
    /\ UNCHANGED <<in_entry, in_draft, out_draft, verdict, dup, now, nonDraftVars>>

(***************************************************************************)
(* The task monitor (TaskMonitor) and the runs of the scheduler's tasks    *)
(* that write to it: the timer threads' runs and the run made by           *)
(* trigger_manual_fetch on the caller's thread.  Nothing locks             *)
(* task_history; a thread switch may fall between any two statements of    *)
(* record_task_start, and inside line 49 between the evaluation of the     *)
(* slice and the assignment.                                               *)
(***************************************************************************)
MaxRuns == 2

max_history_size == 100

\* a record of task_history; run numbers the record_task_start calls in
\* the order of their appends and stands for start_time
TaskRecord(task_id, run, status, success) ==
    [task_id |-> task_id, run |-> run, status |-> status, success |-> success]

\* a history of n completed runs, the state after n undisturbed runs
RECURSIVE CompletedRuns(_)
CompletedRuns(n) ==
    IF n = 0 THEN <<>>
    ELSE Append(CompletedRuns(n - 1), TaskRecord("rss_fetch", n, "completed", "True"))

\* the histories a check starts from: empty, one short of full, full
Prefills == {0, max_history_size - 1, max_history_size}

\* self.task_history[-n:]
LastRecords(history, n) ==
    IF Len(history) <= n THEN history
    ELSE SubSeq(history, Len(history) - n + 1, Len(history))

\* TaskMonitor.record_task_complete: the most recent running record of
\* task_id is completed with the outcome; without one nothing happens
record_task_complete(history, task_id, success) ==
    LET running == {i \in DOMAIN history :
                       /\ history[i].task_id = task_id
                       /\ history[i].status = "running"}
    IN  IF running = {} THEN history
        ELSE LET last == CHOOSE i \in running : \A j \in running : j <= i
             IN  [history EXCEPT ![last] =
                     [@ EXCEPT !.status = "completed", !.success = success]]

\* what trigger_manual_fetch returns as 'success' after its run: the field
\* of the last rss_fetch record of the history, False without such a record
latest_rss_fetch_status(history) ==
    LET recent_tasks == SelectSeq(history, LAMBDA task : task.task_id = "rss_fetch")
    IN  IF recent_tasks = <<>> THEN "False"
        ELSE recent_tasks[Len(recent_tasks)].success

\* TaskMonitor.get_task_statistics: the records started at or after the
\* cutoff are counted, those with a true success field are the successful
\* ones, and every other one is a failed one (lines 69-76).  cutoff is a
\* run number, as run stands for start_time.
get_task_statistics(history, cutoff) ==
    LET recent_tasks == SelectSeq(history, LAMBDA task : task.run >= cutoff)
        total_tasks == Len(recent_tasks)
        successful_tasks ==
            Len(SelectSeq(recent_tasks, LAMBDA task : task.success = "True"))
    IN  [cutoff |-> cutoff,
         total_executions |-> total_tasks,
         successful_executions |-> successful_tasks,
         failed_executions |-> total_tasks - successful_tasks]

\* no statistics taken
NoStats == [cutoff |-> 0, total_executions |-> 0,
            successful_executions |-> 0, failed_executions |-> 0]

RunnerIdle ==
    [pc |-> "idle",
     runs |-> 0,                \* the runs the thread has made
     task_id |-> "none",        \* the task function it is running
     run |-> 0,                 \* the number of its record
     outcome |-> "None",        \* what the run passed to record_task_complete
     task_stats |-> NoStats,    \* what _check_task_health got from the monitor
     local |-> <<>>]            \* the slice evaluated on line 49

InitHistIdle ==
    /\ task_history = <<>>
    /\ runner = [h \in Threads |-> RunnerIdle]
    /\ started = 0
    /\ manual_result = "none"

\* a thread enters a task function, which calls record_task_start: the
\* record is appended (lines 34-45).  The timer threads run any of the
\* periodic tasks, trigger_manual_fetch runs _rss_fetch_task.
StartRun(h) ==
    /\ runner[h].pc \in {"idle", "returned"}
    /\ runner[h].runs < MaxRuns
    /\ \E task_id \in IF h = "manual" THEN {"rss_fetch"} ELSE Tasks :
          /\ task_history' = Append(task_history,
                                TaskRecord(task_id, started + 1, "running", "None"))
          /\ runner' = [runner EXCEPT ![h] =
                           [RunnerIdle EXCEPT !.pc = "appended",
                                              !.runs = runner[h].runs + 1,
                                              !.task_id = task_id,
                                              !.run = started + 1]]
    /\ started' = started + 1
    /\ UNCHANGED <<manual_result, nonHistVars>>

\* record_task_start, line 48 and the right-hand side of line 49: the
\* length is tested and the slice is evaluated
TrimCheck(h) ==
    /\ runner[h].pc = "appended"
    /\ runner' = [runner EXCEPT ![h] =
                     IF Len(task_history) > max_history_size
                     THEN [@ EXCEPT !.pc = "assign",
                                    !.local = LastRecords(task_history, max_history_size)]
                     ELSE [@ EXCEPT !.pc = "task"]]
    /\ UNCHANGED <<task_history, started, manual_result, nonHistVars>>

\* record_task_start, the assignment of line 49
TrimAssign(h) ==
    /\ runner[h].pc = "assign"
    /\ task_history' = runner[h].local
    /\ runner' = [runner EXCEPT ![h] = [@ EXCEPT !.pc = "task", !.local = <<>>]]
    /\ UNCHANGED <<started, manual_result, nonHistVars>>

\* _health_check_task reaches _check_task_health (line 333), which takes
\* the statistics of the last 24 hours from the monitor: either every
\* record of the history is that recent or only the newest one is
CheckTaskHealth(h) ==
    /\ runner[h].pc = "task"
    /\ runner[h].task_id = "health_check"
    /\ \E cutoff \in {0, started} :
          runner' = [runner EXCEPT ![h] =
                        [@ EXCEPT !.pc = "checked",
                                  !.task_stats = get_task_statistics(task_history, cutoff)]]
    /\ UNCHANGED <<task_history, started, manual_result, nonHistVars>>

\* the task's work ends well or raises, and the task function calls
\* record_task_complete with its outcome
Complete(h) ==
    /\ \/ runner[h].pc = "task" /\ runner[h].task_id # "health_check"
       \/ runner[h].pc = "checked"
    /\ \E success \in {"True", "False"} :
          /\ task_history' = record_task_complete(task_history, runner[h].task_id, success)
          /\ runner' = [runner EXCEPT ![h] =
                           [@ EXCEPT !.outcome = success,
                                     !.task_stats = NoStats,
                                     !.pc = IF h = "manual" THEN "read" ELSE "idle"]]
    /\ UNCHANGED <<started, manual_result, nonHistVars>>

\* trigger_manual_fetch after its run: the latest rss_fetch record is read
\* and its fields are returned
ManualRead ==
    /\ runner["manual"].pc = "read"
    /\ manual_result' = latest_rss_fetch_status(task_history)
    /\ runner' = [runner EXCEPT !["manual"] = [@ EXCEPT !.pc = "returned"]]
    /\ UNCHANGED <<task_history, started, nonHistVars>>

(***************************************************************************)
(* The retry decorator (retry_on_failure) around any coroutine function.   *)
(* The function is given by what its successive calls do: return ("ok") or *)
(* raise an exception of some class.                                       *)
(***************************************************************************)
RetryLimit == 3

\* the classes the wrapped function raises
RaisedClasses == {"RSSFetchError", "RSSParseError", "ValueError"}

\* `current_delay += backoff`
next_delay_additive(current_delay, factor) == current_delay + factor

\* `current_delay *= backoff` (line 58)
next_delay(current_delay, factor) == current_delay * factor

\* the wrapper before its first call: last_exception = None, current_delay
\* = delay, attempt = 0 (lines 47-50)
RetryCall(n, d, b, E, script) ==
    [pc |-> "call", n |-> n, d |-> d, b |-> b, E |-> E, script |-> script,
     attempt |-> 0, current_delay |-> d, last_exception |-> "None",
     calls |-> 0, sleeps |-> <<>>, raised |-> "None"]

\* no wrapped call is under way
InitRetryIdle ==
    retry = [RetryCall(0, 1, 1, {}, <<"ok">>) EXCEPT !.pc = "idle"]

\* `return await func(*args, **kwargs)` (line 52): the function returns,
\* and the wrapper with it, or raises; `except exceptions as e` takes the
\* exception when its class is listed, and it leaves the wrapper otherwise
CallFunc ==
    /\ retry.pc = "call"
    /\ LET outcome == retry.script[retry.calls + 1]
       IN  retry' = [retry EXCEPT
                        !.calls = @ + 1,
                        !.last_exception =
                            IF outcome \in retry.E THEN outcome ELSE @,
                        !.raised =
                            IF outcome = "ok" \/ outcome \in retry.E THEN @ ELSE outcome,
                        !.pc = IF outcome = "ok" THEN "returned"
                               ELSE IF outcome \in retry.E THEN "except"
                               ELSE "raised"]
    /\ UNCHANGED nonRetryVars

\* the handler with attempts left (lines 55-58): it sleeps current_delay,
\* multiplies it and the loop calls again
SleepAndRetry ==
    /\ retry.pc = "except"
    /\ retry.attempt < retry.n
    /\ retry' = [retry EXCEPT
                    !.sleeps = Append(@, retry.current_delay),
                    !.current_delay = next_delay(@, retry.b),
                    !.attempt = @ + 1,
                    !.pc = "call"]
    /\ UNCHANGED nonRetryVars

\* the handler on the last attempt (lines 59-60) and the end of the loop:
\* `raise last_exception` (line 62)
GiveUp ==
    /\ retry.pc = "except"
    /\ retry.attempt >= retry.n
    /\ retry' = [retry EXCEPT !.raised = retry.last_exception, !.pc = "raised"]
    /\ UNCHANGED nonRetryVars

\* the components outside the parser are as constructed and stay so
InitRestIdle ==
    InitSchedIdle /\ InitRateIdle /\ InitDraftIdle /\ InitHistIdle /\ InitRetryIdle

(***************************************************************************)
(* SpecNorm: the normalizer on bounded inputs.                             *)
(***************************************************************************)
MaxParams == 3

\* name=value segments the bounded queries are built from
PlainSegments == {<<"a", "1">>, <<"a", "">>, <<"b", "1">>, <<"b", "%20">>, <<"Ref", "1">>}
TrackingSegments == {<<"utm_source", "1">>, <<"utm_source", "2">>, <<"ref", "1">>}

SeqsUpTo(S, n) == UNION {[1..k -> S] : k \in 0..n}

NormUrls ==
    {MkUrl("https", "x.com", "/a", q) :
        q \in SeqsUpTo(PlainSegments \cup TrackingSegments, MaxParams)}

\* The query with the denylisted segments taken out, nothing else touched
WithoutTracking(query) == SelectSeq(query, LAMBDA p : p[1] \notin tracking_params)

\* u and w differ only in the presence or values of tracking parameters
DifferOnlyInTracking(u, w) ==
    /\ u.scheme = w.scheme /\ u.netloc = w.netloc /\ u.path = w.path
    /\ WithoutTracking(u.query) = WithoutTracking(w.query)

InitNorm ==
    /\ InitMonitorIdle
    /\ InitRestIdle
    /\ InitPipelineIdle
    /\ url_a \in NormUrls
    /\ url_b \in {w \in NormUrls : DifferOnlyInTracking(url_a, w)}
    /\ norm_a = NoUrl
    /\ norm_b = NoUrl
    /\ norm_pc = "input"

NormalizeBoth ==
    /\ norm_pc = "input"
    /\ norm_pc' = "normalized"
    /\ norm_a' = _normalize_url(url_a)
    /\ norm_b' = _normalize_url(url_b)
    /\ UNCHANGED <<url_a, url_b, monVars, now, pipeVars, restVars>>

NextNorm == NormalizeBoth

SpecNorm == InitNorm /\ [][NextNorm]_vars

\* C5: two URLs that differ only in the presence or values of denylisted
\* tracking parameters are normalized to the same canonical string.
C5_SameCanonicalForm ==
    (norm_pc = "normalized" /\ DifferOnlyInTracking(url_a, url_b))
        => norm_a = norm_b

\* C5's case: one URL carries utm_source and ref, the other neither, both were
\* normalized and a non-tracking parameter survives in the result.
C5_Witness ==
    /\ norm_pc = "normalized"
    /\ url_a # url_b
    /\ \E i \in 1..Len(url_a.query) : url_a.query[i][1] = "utm_source"
    /\ \E i \in 1..Len(url_a.query) : url_a.query[i][1] = "ref"
    /\ \A i \in 1..Len(url_b.query) : url_b.query[i][1] \notin tracking_params
    /\ norm_a.query # <<>>

\* the decoded name/value pairs of a query
Decoded(query) ==
    [i \in 1..Len(query) |-> <<unquote_plus(query[i][1]), unquote_plus(query[i][2])>>]

\* C6: the normalizer's output keeps scheme, host and path and every
\* non-tracking query parameter (each occurrence, repeated keys and empty
\* values included) in its original relative order; only tracking parameters
\* are removed.  Parameters are compared decoded, the denylist without regard
\* to case.
C6_KeepsOtherParams ==
    norm_pc = "normalized" =>
        /\ norm_a.scheme = url_a.scheme
        /\ norm_a.netloc = url_a.netloc
        /\ norm_a.path = url_a.path
        /\ Decoded(norm_a.query) =
              Decoded(SelectSeq(url_a.query,
                          LAMBDA p : lower(p[1]) \notin tracking_params))


(***************************************************************************)
(* SpecMonitor: any sequence of recorded outcomes and health queries on    *)
(* one RSSMonitor.                                                         *)
(***************************************************************************)
MaxRecords == 5
MaxItems == 2

InitNormIdle ==
    /\ url_a = NoUrl /\ url_b = NoUrl
    /\ norm_a = NoUrl /\ norm_b = NoUrl
    /\ norm_pc = "idle"

InitMonitor ==
    /\ InitPipelineIdle
    /\ InitRestIdle
    /\ InitNormIdle
    /\ InitMonitorIdle

MonitorRecord ==
    /\ metrics.total_feeds < MaxRecords
    /\ \E result \in {SuccessResult(1, n, MaxItems) : n \in 0..MaxItems}
                  \cup {FailureResult(1, "RSSFetchError")} :
          metrics' = record_fetch_result(metrics, result, now)
    /\ health_out' = "none"
    /\ UNCHANGED <<normVars, now, pipeVars, restVars>>

MonitorTick ==
    /\ now < MaxRecords
    /\ now' = now + 1
    /\ UNCHANGED <<normVars, monVars, pipeVars, restVars>>

GetHealthStatus ==
    /\ health_out' = get_health_status(metrics)
    /\ UNCHANGED <<normVars, metrics, now, pipeVars, restVars>>

NextMonitor == MonitorRecord \/ MonitorTick \/ GetHealthStatus

SpecMonitor == InitMonitor /\ [][NextMonitor]_vars

\* C10: get_health_status() answers 'unknown' when total_feeds = 0, otherwise
\* 'healthy' when successful_feeds/total_feeds >= 0.8, 'degraded' when the
\* ratio is in [0.5, 0.8) and 'unhealthy' when it is below 0.5.
C10_HealthClassification ==
    health_out # "none" =>
        LET s == metrics.successful_feeds
            n == metrics.total_feeds
        IN  /\ (n = 0) <=> (health_out = "unknown")
            /\ (n > 0 /\ 10 * s >= 8 * n) <=> (health_out = "healthy")
            /\ (n > 0 /\ 10 * s < 8 * n /\ 10 * s >= 5 * n) <=> (health_out = "degraded")
            /\ (n > 0 /\ 10 * s < 5 * n) <=> (health_out = "unhealthy")

\* C10's boundary case: 4 successes out of 5 recorded feeds answered 'healthy'
C10_Witness ==
    /\ metrics.total_feeds = 5
    /\ metrics.successful_feeds = 4
    /\ health_out = "healthy"

\* C11: each record_fetch_result raises total_feeds by exactly 1 and exactly
\* one of successful_feeds / failed_feeds by 1; a failed outcome leaves
\* total_news and new_news as they were; no counter ever decreases; so
\* total_feeds = successful_feeds + failed_feeds in every reachable state of
\* a monitor used from one context.
C11_CountersAddUp ==
    /\ [](metrics.total_feeds = metrics.successful_feeds + metrics.failed_feeds)
    /\ [][metrics' # metrics =>
            /\ metrics'.total_feeds = metrics.total_feeds + 1
            /\ \/ /\ metrics'.successful_feeds = metrics.successful_feeds + 1
                  /\ metrics'.failed_feeds = metrics.failed_feeds
               \/ /\ metrics'.failed_feeds = metrics.failed_feeds + 1
                  /\ metrics'.successful_feeds = metrics.successful_feeds
                  /\ metrics'.total_news = metrics.total_news
                  /\ metrics'.new_news = metrics.new_news
            /\ metrics'.total_news >= metrics.total_news
            /\ metrics'.new_news >= metrics.new_news]_vars

\* C11's case: successes with items and a failure have been recorded
C11_Witness ==
    /\ metrics.successful_feeds >= 1
    /\ metrics.failed_feeds >= 2
    /\ metrics.total_news > 0
    /\ metrics.new_news > 0

(***************************************************************************)
(* Spec: the fetch cycles of the two threads over the shared storage.      *)
(***************************************************************************)
\* the entries of the feeds two racing threads are given
RaceEntries == {MkEntry(TRUE, UrlX, "t"), MkEntry(TRUE, UrlXT, "t")}

\* The configurations checked: the timer thread alone over any set of enabled
\* sources, every kind of entry, a database that may raise and a source file
\* that can be read or not; or the two
\* threads at once over one source and a database that answers.
Configs ==
    {[active |-> {"timer"}, enabled |-> e, served |-> FeedEntries,
      db_faults |-> TRUE, readable |-> r] :
        e \in SUBSET Sources, r \in BOOLEAN}
    \cup
    {[active |-> Threads, enabled |-> {1}, served |-> RaceEntries,
      db_faults |-> FALSE, readable |-> TRUE]}

Init ==
    /\ InitNormIdle
    /\ InitRestIdle
    /\ InitMonitorIdle
    /\ \E c \in Configs :
          /\ active = c.active
          /\ enabled = c.enabled
          /\ served = c.served
          /\ db_faults = c.db_faults
          /\ readable = c.readable
    /\ service_metrics = NewMetrics
    /\ news = {}
    /\ last_fetched = [s \in Sources |-> 0]
    /\ fetch_logs = <<>>
    /\ th = [t \in Threads |-> ThreadIdle]
    /\ observed = [u \in ArticleUrls |-> 0]
    /\ raced = {}

Next ==
    \E t \in Threads :
        \/ StartCycle(t)
        \/ StartTask(t)
        \/ Request(t)
        \/ Response(t)
        \/ Parse(t)
        \/ ProcessEntry(t)
        \/ SaveInsert(t)
        \/ SaveSelect(t)
        \/ EntriesDone(t)
        \/ UpdateLastFetched(t)
        \/ InsertLog(t)
        \/ Record(t)
        \/ GatherDone(t)

Spec == Init /\ [][Next]_vars

\* the thread is between the end of a task's work and the return of its
\* summary: every local of the task has its final value
AtRecord(t) == th[t].pc = "record"

\* C1: a source whose every GET fails is retried exactly 3 times after the
\* first attempt, with waits of 2s, 4s and 8s in that order, and only then
\* recorded as a failed fetch.
C1_RetriedThreeTimes ==
    \A t \in Threads :
        (AtRecord(t) /\ ~th[t].success /\ th[t].error = "RSSFetchError")
            => (th[t].gets = 4 /\ th[t].sleeps = <<2, 4, 8>>)

\* C2: a run that ends in failure leaves the source's last_fetched as it
\* was; the only thing it appends is a FetchLogEntry with success=false.
C2_FailureKeepsLastFetched ==
    [][\A t \in Threads :
          (~th[t].success /\ th'[t] # th[t]) =>
             /\ th[t].pc = "update_status" => last_fetched' = last_fetched
             /\ th[t].pc = "insert_log" =>
                   \/ fetch_logs' = fetch_logs
                   \/ /\ Len(fetch_logs') = Len(fetch_logs) + 1
                      /\ ~fetch_logs'[Len(fetch_logs')].success]_vars

\* no thread is inside _save_news for url any more
Settled(url) ==
    \A t \in Threads :
        th[t].pc \in {"save", "select"} => th[t].news_data.url # url

\* C3: when two threads both pass the dedup check for one URL before either
\* persists it, storage ends with exactly one row for the URL and exactly one
\* of the two _save_news calls returns an id; the other is a no-op and no
\* caller's run fails.
C3_ExactlyOneInserted ==
    /\ \A url \in ArticleUrls :
          /\ Cardinality(RowsWithUrl(news, url)) <= 1
          /\ observed[url] <= Cardinality(RowsWithUrl(news, url))
    /\ \A url \in raced :
          Settled(url) =>
             /\ Cardinality(RowsWithUrl(news, url)) = 1
             /\ observed[url] = 1
             /\ \A t \in Threads :
                   th[t].pc \in {"update_status", "insert_log", "record"}
                       => th[t].success

\* C3's case: both threads were about to insert the same URL, both persists
\* are over and both cycles have returned.
C3_Witness ==
    /\ raced # {}
    /\ \A t \in Threads : th[t].pc = "returned"
    /\ \E url \in raced : observed[url] = 1

\* C4: after any sequence of ingestions no two persisted articles have the
\* same normalized URL.
C4_NoTwoSameNormalizedUrl ==
    \A r1, r2 \in news :
        _normalize_url(r1.url) = _normalize_url(r2.url) => r1 = r2

\* C7: for a successful run with no concurrent writer (and no database
\* error), new_items equals the number of rows the run added, which equals
\* the number of distinct (normalized) URLs among the valid entries that
\* storage did not hold before the run.
C7_NewItemsCount ==
    \A t \in Threads :
        ( /\ AtRecord(t) /\ th[t].success /\ ~th[t].db_failed
          /\ \A u \in Threads \ {t} : th[u].pc = "idle" )
        => /\ th[t].new_news_count = Cardinality(news \ th[t].news_before)
           /\ th[t].new_news_count = Cardinality(th[t].fresh)

\* C8: a rejection or failure of one entry drops only that entry: once the
\* feed has parsed, every entry is visited and the run ends as a success.
C8_BadEntryDropsOnlyItself ==
    \A t \in Threads :
        /\ (th[t].pc \in {"update_status", "insert_log", "record"}
              /\ th[t].total_items > 0)
            => (th[t].success /\ th[t].remaining = 0)
        /\ \A i \in 1..Len(th[t].results) :
              "total_items" \in DOMAIN th[t].results[i]
                  => th[t].results[i].success

\* C8's case: an entry of the run was rejected or failed, a later entry was
\* persisted and counted, and the run is about to return a success.
C8_Witness ==
    \E t \in Threads :
        /\ AtRecord(t) /\ th[t].success
        /\ th[t].saved_after_drop
        /\ th[t].db_failed

\* C9: fetch_all_feeds returns exactly one outcome summary, a record with a
\* success flag and never an exception object, for each enabled source and
\* none for a disabled one, after every source's run has finished, whatever
\* the sibling runs did.
C9_OneSummaryPerEnabledSource ==
    \A t \in Threads :
        th[t].pc = "returned" =>
            LET enabled_sources == get_enabled_rss_sources(enabled, readable)
            IN  /\ th[t].pending = <<>>
                /\ Len(th[t].results) = Len(enabled_sources)
                /\ \A i \in 1..Len(enabled_sources) :
                      /\ th[t].results[i].source = enabled_sources[i]
                      /\ "success" \in DOMAIN th[t].results[i]

\* C9's case: the first source's run failed and its sibling's run still
\* completed with a success; the cycle returned both summaries.
C9_Witness ==
    \E t \in Threads :
        /\ th[t].pc = "returned"
        /\ Len(th[t].results) = 2
        /\ ~th[t].results[1].success
        /\ th[t].results[2].success

\* C15: every HTTP GET of the fetch path is issued only after a granted
\* RateLimiter.acquire(), so that at most max_requests GETs go out in any
\* trailing time_window.
C15_GetAfterAcquire ==
    \A t \in Threads :
        /\ th[t].gets > 0 => granted # <<>>
        /\ th[t].gets <= Len(granted)

(***************************************************************************)
(* SpecSched: any sequence of start(), stop(), timer firings and task runs *)
(* on one scheduler.  SpecSchedFair adds that a pending timer fires and    *)
(* that a timer thread goes on running: task_func comes to an end and the  *)
(* finally block is executed.                                              *)
(***************************************************************************)
InitSched ==
    /\ InitNormIdle
    /\ InitHistIdle
    /\ InitRetryIdle
    /\ InitMonitorIdle
    /\ InitPipelineIdle
    /\ InitRateIdle
    /\ InitDraftIdle
    /\ InitSchedIdle

NextSched ==
    \/ start
    \/ stop
    \/ \E k \in Tasks, i \in Chains :
          \/ Fire(k, i)
          \/ CallTask(k, i)
          \/ TaskReturn(k, i)
          \/ TaskRaise(k, i)
          \/ Except(k, i)
          \/ FinallyCheck(k, i)
          \/ Reschedule(k, i)

SpecSched == InitSched /\ [][NextSched]_vars

\* stop() is called while at most one task, any of the three, is running
InitSchedFair ==
    /\ InitNormIdle
    /\ InitHistIdle
    /\ InitRetryIdle
    /\ InitMonitorIdle
    /\ InitPipelineIdle
    /\ InitRateIdle
    /\ InitDraftIdle
    /\ InitSchedStopped
    /\ \E k \in Tasks : overrun = {k}

SpecSchedFair ==
    /\ InitSchedFair
    /\ [][NextSched]_vars
    /\ \A k \in Tasks, i \in Chains :
          /\ WF_vars(Fire(k, i))
          /\ WF_vars(CallTask(k, i))
          /\ WF_vars(TaskReturn(k, i) \/ TaskRaise(k, i))
          /\ WF_vars(Except(k, i))
          /\ WF_vars(FinallyCheck(k, i))
          /\ WF_vars(Reschedule(k, i))

\* C12: for each periodic task at most one scheduled run is in progress at
\* any time and at most one timer chain exists for it, whatever the sequence
\* of start(), stop() and timer firings.
C12_NoOverlapOneChain ==
    \A k \in Tasks :
        /\ Cardinality(RunsInProgress(k)) <= 1
        /\ Cardinality(LiveChains(k)) <= 1

\* C33: from the return of stop() to the next start(), which is when
\* is_running is false, no run of a periodic task begins: no timer thread
\* calls task_func.
C33_NoRunAfterStop ==
    [][\A k \in Tasks, i \in Chains :
          (chain[k][i] # "task" /\ chain'[k][i] = "task") => is_running]_vars

\* SimpleScheduler.get_scheduler_status, the two fields read from the
\* scheduler itself: active_tasks is len(self.timers)
get_scheduler_status ==
    [is_running |-> is_running,
     active_tasks |-> Cardinality({k \in Tasks : timers[k] # 0})]

\* no thread is inside run_task: every chain is over or waits for its timer
Quiescent ==
    \A k \in Tasks, i \in Chains : chain[k][i] \in {"none", "pending"}

\* C34: in a quiescent state the reported status has active_tasks = 0 when
\* is_running is false and active_tasks = 3, one timer per periodic task,
\* when it is true.
C34_StatusConsistent ==
    Quiescent =>
        get_scheduler_status.active_tasks =
            IF get_scheduler_status.is_running THEN Cardinality(Tasks) ELSE 0

\* C35: start() on a running scheduler and stop() on a stopped one change
\* nothing: no timer is created or cancelled, no chain begins or ends, and
\* is_running and the timer registry stay as they are.
C35_CallsIdempotent ==
    [][/\ (is_running /\ start) => UNCHANGED schedVars
       /\ (~is_running /\ stop) => UNCHANGED schedVars]_vars

\* C35's case: the scheduler is running with a timer registered for every
\* task, one task's run is in progress and a further chain could be
\* created, which is when a second start() would show
C35_Witness ==
    /\ is_running
    /\ \A k \in Tasks : timers[k] # 0 /\ \E i \in Chains : chain[k][i] = "none"
    /\ \E k \in Tasks, i \in Chains : chain[k][i] = "task"

\* C13: while the scheduler stays running, every run of a periodic task,
\* whether task_func returned or raised, is eventually followed by another
\* run of the same task on the same chain, whatever the other tasks' runs do.
C13_RunFollowedByRun ==
    \A k \in Tasks, i \in Chains :
        []((chain[k][i] = "task" /\ []is_running)
              => <>(chain[k][i] # "task" /\ <>(chain[k][i] = "task")))

\* C13's case: with the scheduler running, a run of one task has raised and
\* the chains of the other two tasks are alive
C13_Witness ==
    /\ is_running
    /\ \E k \in Tasks, i \in Chains :
          /\ chain[k][i] = "except"
          /\ \A other \in Tasks \ {k} : LiveChains(other) # {}

(***************************************************************************)
(* SpecRate: coroutines of one event loop calling acquire() on one         *)
(* RateLimiter(max_requests, time_window) while time passes.               *)
(***************************************************************************)
InitRate ==
    /\ InitNormIdle
    /\ InitHistIdle
    /\ InitRetryIdle
    /\ InitMonitorIdle
    /\ InitPipelineIdle
    /\ InitSchedIdle
    /\ InitDraftIdle
    /\ max_requests \in 1..MaxRequests
    /\ time_window \in 1..MaxWindow
    /\ requests = <<>>
    /\ callers = [c \in Callers |-> CallerIdle]
    /\ granted = <<>>

NextRate ==
    \/ RateTick
    \/ \E c \in Callers : Acquire(c) \/ Wake(c)

SpecRate == InitRate /\ [][NextRate]_vars

\* the acquisitions recorded in the trailing window (t - time_window, t]
GrantedInWindow(t) ==
    {i \in 1..Len(granted) : t - time_window < granted[i] /\ granted[i] <= t}

\* C14: for max_requests >= 1 and any interleaving of the callers, the
\* acquisitions whose recorded timestamps lie in any trailing window of length
\* time_window never number more than max_requests, also when several callers
\* that waited at capacity wake at the same time.
C14_WindowNeverExceeded ==
    \A t \in 1..MaxTime : Cardinality(GrantedInWindow(t)) <= max_requests

\* C14's case: callers that waited at capacity woke at the same time; one was
\* granted at that time and another, having re-checked, sleeps again
C14_Witness ==
    \E c \in Callers :
        /\ callers[c].pc = "sleeping"
        /\ callers[c].rechecked
        /\ callers[c].wake_at > now
        /\ Cardinality(GrantedInWindow(now)) = max_requests
        /\ granted # <<>> /\ granted[Len(granted)] = now

\* SpecRateFair: calls are made up to MaxTime; time does not stop while a
\* caller sleeps, and a caller whose asyncio.sleep is over runs again.
AcquireInTime(c) == now <= MaxTime /\ Acquire(c)

NextRateFair ==
    \/ RateTick
    \/ RateTickWaiting
    \/ \E c \in Callers : AcquireInTime(c) \/ Wake(c)

SpecRateFair ==
    /\ InitRate
    /\ [][NextRateFair]_vars
    /\ WF_vars(RateTick \/ RateTickWaiting)
    /\ \A c \in Callers : WF_vars(Wake(c))

\* C29: with max_requests >= 1 every call of acquire() returns as time
\* advances: a caller that sleeps at capacity wakes when the oldest tracked
\* request has left the window, checks again, and is granted after finitely
\* many waits, the competing calls being finitely many.
C29_AcquireReturns ==
    \A c \in Callers : (callers[c].pc = "sleeping") ~> (callers[c].pc = "idle")

\* C29's case: a caller that waited found the limiter at capacity again,
\* another caller having been granted the freed place, and waits once more
C29_Witness ==
    \E c \in Callers :
        /\ callers[c].pc = "sleeping"
        /\ callers[c].rechecked
        /\ \E d \in Callers \ {c} : callers[d].pc = "sleeping"
        /\ Len(granted) >= max_requests + 1

(***************************************************************************)
(* SpecEntry: one bounded draft handed to the validator, or one bounded    *)
(* entry handed to the standardizer, and taken on from there.              *)
(***************************************************************************)
\* URLs without a scheme, without a host
UrlNoScheme == MkUrl("", "x.com", "/a", <<>>)
UrlNoHost == MkUrl("https", "", "/a", <<>>)

Dates == {NoDate} \cup (0..(MaxClock + OneDay + 1))

Drafts ==
    {[url |-> u, title |-> t, content |-> <<>>, published_at |-> d,
      source_id |-> 1] :
        u \in {NoUrl, UrlX, UrlXT, UrlNoScheme, UrlNoHost},
        t \in {"", "t", " t", "t  t"},
        d \in Dates}

\* contents around the cap: leading whitespace, a long word, a run of
\* whitespace, a short word
Contents ==
    {Merge(<<Run(" ", lead), Run("a", max_length - short), Run(" ", gap), Run("b", tail)>>) :
        lead \in {0, 2}, short \in 0..3, gap \in 0..2, tail \in 0..2}
    \cup {<<>>, <<Run("a", 1)>>, <<Run("a", max_length), Run(".", 1)>>}

ContentDrafts ==
    {[url |-> UrlX, title |-> "t", content |-> c, published_at |-> NoDate,
      source_id |-> 1] : c \in Contents}

\* entries with every combination of absent, unusable, past and far-future
\* parsed times, and entries with marked-up content around the cap
EntryInputs ==
    {[MkEntry(TRUE, link, title) EXCEPT !.published_parsed = p,
                                        !.updated_parsed = u,
                                        !.created_parsed = c] :
        link \in {UrlX, NoUrl}, title \in {"t", " "},
        p \in {NoDate, BadDate, 0, MaxClock + OneDay + 1},
        u \in {NoDate, BadDate, 1},
        c \in {NoDate, BadDate, 2}}
    \cup
    {[MkEntry(TRUE, UrlX, "t") EXCEPT !.content = c, !.summary = m] :
        c \in {<<>>, <<Run("<b>", 1), Run("a", max_length), Run("<b>", 1), Run(" ", 2), Run("b", 1)>>},
        m \in {<<>>, <<Run(" ", 1), Run("a", max_length + 1)>>}}

\* what table news may hold when the entry arrives
Stored(url) == {[id |-> 1, url |-> url, title |-> "t", content |-> <<>>]}

InitEntry ==
    /\ InitNormIdle
    /\ InitHistIdle
    /\ InitRetryIdle
    /\ enabled = {} /\ active = {} /\ served = {} /\ db_faults = TRUE
    /\ readable = TRUE
    /\ service_metrics = NewMetrics
    /\ last_fetched = [s \in Sources |-> 0]
    /\ fetch_logs = <<>>
    /\ th = [t \in Threads |-> ThreadIdle]
    /\ observed = [u \in ArticleUrls |-> 0]
    /\ raced = {}
    /\ news \in {{}, Stored(UrlX), Stored(UrlXT)}
    /\ InitSchedIdle
    /\ InitRateIdle
    /\ metrics = NewMetrics
    /\ health_out = "none"
    /\ now \in 1..2
    /\ \/ /\ in_entry = NoEntry
          /\ in_draft \in Drafts \cup ContentDrafts
          /\ fn_pc = "draft"
       \/ /\ in_entry \in EntryInputs
          /\ in_draft = NoDraft
          /\ fn_pc = "entry"
    /\ out_draft = NoDraft
    /\ verdict = "none"
    /\ dup = NoAnswer

NextEntry ==
    Standardize \/ DraftTick \/ Validate \/ Sanitize \/ CheckDuplicate \/ Persist

SpecEntry == InitEntry /\ [][NextEntry]_vars

\* C16: validate rejects a draft when its URL is empty, its title is empty,
\* its URL lacks a scheme or a host, or its publication time is more than one
\* day after the current time, and accepts every other draft, the one
\* published exactly one day ahead included.
C16_ValidateRejectsExactly ==
    fn_pc \in {"validated", "sanitized", "checked", "persisted"} =>
        ( verdict = "rejected" <=>
            \/ in_draft.url = NoUrl
            \/ in_draft.title = ""
            \/ in_draft.url.scheme = ""
            \/ in_draft.url.netloc = ""
            \/ /\ in_draft.published_at # NoDate
               /\ in_draft.published_at - now > OneDay )

\* C16's boundary case: a draft published exactly one day ahead was accepted
C16_Witness ==
    /\ fn_pc = "validated"
    /\ in_draft.published_at # NoDate
    /\ in_draft.published_at = now + OneDay
    /\ verdict = "accepted"

\* C17: content that after whitespace collapsing is longer than 10,000
\* characters becomes exactly its first 10,000 characters followed by the
\* ellipsis; content of at most 10,000 characters is not truncated; so no
\* persisted content is longer than the cap plus the marker.
C17_TruncatedAtCap ==
    /\ fn_pc \in {"sanitized", "checked", "persisted"} =>
          LET collapsed == collapse_whitespace(strip_text(in_draft.content))
          IN  /\ len(collapsed) > 10000 =>
                    /\ out_draft.content = Merge(Take(collapsed, 10000) \o <<Run(".", 3)>>)
                    /\ len(out_draft.content) = 10003
              /\ len(collapsed) <= 10000 => out_draft.content = collapsed
    /\ \A row \in news : len(row.content) <= 10003

\* C17's case: a content of 10,001 characters after collapsing was truncated
\* and persisted
C17_Witness ==
    /\ fn_pc = "persisted"
    /\ len(collapse_whitespace(strip_text(in_draft.content))) = 10001
    /\ len(in_draft.content) > 10001
    /\ \E row \in news : len(row.content) = 10003

\* a title token that begins or ends with whitespace, or holds a run of it
UncleanTitle(text) == text \in {" ", " t", "t  t"}

\* a text without leading or trailing whitespace and without a run of two
\* or more whitespace characters
CleanText(runs) ==
    /\ runs # <<>> => runs[1].ch # " " /\ runs[Len(runs)].ch # " "
    /\ \A i \in DOMAIN runs : runs[i].ch = " " => runs[i].n = 1

\* C37: sanitize is idempotent, its title and content have no leading or
\* trailing whitespace and no run of two or more whitespace characters, and
\* it leaves the other fields as they were.  Stated of every draft handed
\* in, and of the draft the Sanitize step returned.
C37_SanitizeIdempotent ==
    LET once == sanitize_news_data(in_draft)
    IN  /\ sanitize_news_data(once) = once
        /\ ~UncleanTitle(once.title)
        /\ CleanText(once.content)
        /\ once.url = in_draft.url
        /\ once.published_at = in_draft.published_at
        /\ once.source_id = in_draft.source_id
        /\ fn_pc = "sanitized" => out_draft = once

\* C37's case: a content with leading whitespace, a run of whitespace
\* inside and more than 10,000 characters after collapsing was sanitized
C37_Witness ==
    /\ fn_pc = "sanitized"
    /\ in_draft.content # <<>>
    /\ in_draft.content[1] = Run(" ", 2)
    /\ \E i \in DOMAIN in_draft.content : i > 1 /\ in_draft.content[i] = Run(" ", 2)
    /\ len(collapse_whitespace(strip_text(in_draft.content))) > max_length
    /\ out_draft.content # in_draft.content

\* the parsed times of the entry, in the order they are probed
ParsedTimes(entry) ==
    <<entry.published_parsed, entry.updated_parsed, entry.created_parsed>>

\* C18: the published time of a draft is the first of the entry's parsed
\* published, updated and created times that is present and convertible, in
\* that order; when there is none it is the time of processing, and the
\* entry is not rejected for that: with a valid URL and title it passes
\* validation.
C18_PublishedTimeFallback ==
    /\ [][(fn_pc = "entry" /\ fn_pc' = "draft") =>
            LET times == ParsedTimes(in_entry)
                usable == {i \in 1..3 : times[i] \notin {NoDate, BadDate}}
            IN  /\ usable # {} =>
                      \E i \in usable :
                          /\ \A j \in usable : i <= j
                          /\ in_draft'.published_at = times[i]
                /\ usable = {} => in_draft'.published_at = now]_vars
    /\ []( ( /\ fn_pc = "validated"
             /\ in_entry # NoEntry
             /\ \A i \in 1..3 : ParsedTimes(in_entry)[i] \in {NoDate, BadDate}
             /\ in_draft.url # NoUrl /\ in_draft.url.scheme # ""
             /\ in_draft.url.netloc # "" /\ in_draft.title # "" )
           => verdict = "accepted" )

\* C18's case: an entry without any usable parsed time was standardized,
\* time went by, and the draft with the fallback time passed validation
C18_Witness ==
    /\ fn_pc = "validated"
    /\ in_entry # NoEntry
    /\ \A i \in 1..3 : ParsedTimes(in_entry)[i] \in {NoDate, BadDate}
    /\ in_entry.updated_parsed = BadDate
    /\ in_draft.published_at < now
    /\ verdict = "accepted"

\* C20: table news never holds two rows with one URL, whatever the dedup
\* lookups answered (in the single-thread configuration each of them may
\* raise and so answer "not duplicate"); and _save_news for a URL that is
\* already stored leaves the table as it is and returns without an error.
C20_OneRowPerUrl ==
    /\ [](\A r1, r2 \in news : r1.url = r2.url => r1 = r2)
    /\ [][\A t \in Threads :
            (/\ th[t].pc = "save"
             /\ th'[t] # th[t]
             /\ RowsWithUrl(news, th[t].news_data.url) # {})
            => /\ news' = news
               /\ th'[t].pc = "entries"
               /\ ~db_faults => ~th'[t].db_failed]_vars

\* C20's case: the task went on to save a draft whose URL was stored before
\* the task began, no statement of _save_news raised, and the task is back in
\* the loop with the table as it was.
C20_Witness ==
    \E t \in Threads :
        /\ th[t].pc = "entries"
        /\ th[t].news_data # NoDraft
        /\ ~th[t].dropped
        /\ RowsWithUrl(th[t].news_before, th[t].news_data.url) # {}
        /\ news = th[t].news_before

\* C19: is_duplicate answers true for an empty or missing URL without a
\* lookup in storage; for any other URL it answers true exactly when storage
\* holds an article under the normalized URL; and when the lookup raises it
\* answers false instead of raising.
C19_IsDuplicateContract ==
    fn_pc = "checked" =>
        LET url == out_draft.url
        IN  /\ url = NoUrl => (dup.answer /\ dup.lookups = 0)
            /\ (url # NoUrl /\ ~dup.failed) =>
                  (dup.answer <=> \E row \in news : row.url = _normalize_url(url))
            /\ (url # NoUrl /\ dup.failed) => ~dup.answer

\* C19's case: the lookup for a URL that storage holds raised, and
\* is_duplicate answered false
C19_Witness ==
    /\ fn_pc = "checked"
    /\ dup.failed
    /\ ~dup.answer
    /\ \E row \in news : row.url = _normalize_url(out_draft.url)

\* C28: every stored article passed validation before it was stored: each
\* row of table news has a non-empty title and a URL with scheme and host,
\* and a draft that validate rejected is never persisted.
C28_StoredPassedValidation ==
    /\ \A row \in news :
          /\ row.title # ""
          /\ row.url # NoUrl
          /\ row.url.scheme # "" /\ row.url.netloc # ""
    /\ fn_pc = "persisted" =>
          /\ verdict = "accepted"
          /\ in_draft.title # "" /\ in_draft.url # NoUrl
          /\ in_draft.url.scheme # "" /\ in_draft.url.netloc # ""
          /\ in_draft.published_at # NoDate => in_draft.published_at - now <= OneDay
    /\ verdict = "rejected" =>
          /\ fn_pc # "persisted"
          /\ \A row \in news : row.id = 1

\* C28's case: a draft that came from a feed entry passed validation and is
\* now a row of its own in table news
C28_Witness ==
    /\ fn_pc = "persisted"
    /\ in_entry # NoEntry
    /\ \E row \in news :
          /\ row.id > 1
          /\ row.url = out_draft.url
          /\ row.title = out_draft.title

(***************************************************************************)
(* Further properties of the fetch cycles (Spec).                          *)
(***************************************************************************)

\* the run's GET was answered and its feed parsed into no entry; the run is
\* past _process_feed_entries or never reached it
ParsedEmpty(t) ==
    /\ th[t].pc \in {"update_status", "insert_log", "record"}
    /\ th[t].gets > 0
    /\ th[t].error # "RSSFetchError"
    /\ th[t].total_items = 0

\* the rows of fetch_logs for a source
LogsOf(source) ==
    {i \in DOMAIN fetch_logs : fetch_logs[i].rss_source_id = source}

\* C21: a run whose GET succeeds but whose feed parses into zero entries ends
\* as a failed run: its summary has success=false, a fetch_logs row with
\* success=false is appended (when no database statement of the run raises),
\* the monitor's failed_feeds goes up by one, and the run persists nothing.
C21_EmptyFeedFails ==
    /\ [](\A t \in Threads :
            ParsedEmpty(t) =>
               /\ ~th[t].success
               /\ ~Summary(th[t]).success
               /\ th[t].news_data = NoDraft /\ th[t].new_news_count = 0
               /\ (AtRecord(t) /\ ~th[t].db_failed) =>
                     \E i \in LogsOf(th[t].source) :
                         /\ ~fetch_logs[i].success
                         /\ fetch_logs[i].items_fetched = 0)
    /\ [][\A t \in Threads :
            (ParsedEmpty(t) /\ th'[t] # th[t]) =>
               /\ news' = news
               /\ th[t].pc = "insert_log" =>
                     \/ th'[t].db_failed
                     \/ /\ Len(fetch_logs') = Len(fetch_logs) + 1
                        /\ ~fetch_logs'[Len(fetch_logs')].success
               /\ AtRecord(t) =>
                     /\ metrics'.failed_feeds = metrics.failed_feeds + 1
                     /\ metrics'.successful_feeds = metrics.successful_feeds
                     /\ ~th'[t].results[Len(th'[t].results)].success]_vars

\* C21's case: the feed parsed into no entry, the failure row is in
\* fetch_logs and the failure summary is about to be recorded and returned.
C21_Witness ==
    \E t \in Threads :
        /\ ParsedEmpty(t) /\ AtRecord(t)
        /\ th[t].error = "RSSParseError"
        /\ ~th[t].db_failed
        /\ LogsOf(th[t].source) # {}

\* C22: a run appends exactly one fetch_logs row, for its own source, unless
\* a statement of _update_fetch_status raises; on success the row has
\* success=true and items_fetched equal to the summary's new_items, and the
\* source's last_fetched is set to the current time.
C22_OneLogRowPerRun ==
    /\ [](\A t \in Threads :
            /\ th[t].logged <= 1
            /\ (AtRecord(t) /\ th[t].logged = 0) => th[t].db_failed
            /\ (AtRecord(t) /\ th[t].logged = 1) =>
                  \E i \in LogsOf(th[t].source) :
                      /\ fetch_logs[i].success = th[t].success
                      /\ th[t].success =>
                            fetch_logs[i].items_fetched = Summary(th[t]).new_items)
    /\ [][\A t \in Threads :
            /\ (th[t].pc = "update_status" /\ th'[t].pc = "insert_log" /\ th[t].success)
                  => last_fetched'[th[t].source] = now
            /\ (th[t].pc = "insert_log" /\ th'[t].logged = 1) =>
                  /\ Len(fetch_logs') = Len(fetch_logs) + 1
                  /\ LET row == fetch_logs'[Len(fetch_logs')]
                     IN  /\ row.rss_source_id = th[t].source
                         /\ row.success = th[t].success
                         /\ th[t].success =>
                               row.items_fetched = Summary(th[t]).new_items
            /\ (th'[t].logged = th[t].logged /\ th'[t].pc # "request"
                  /\ \A u \in Threads \ {t} : th'[u] = th[u])
                  => LogsOf(th[t].source) = {i \in DOMAIN fetch_logs' :
                                fetch_logs'[i].rss_source_id = th[t].source}]_vars

\* C22's case: a run that added an article is a success, has written its one
\* row and set last_fetched, and is about to return its summary.
C22_Witness ==
    \E t \in Threads :
        /\ AtRecord(t) /\ th[t].success
        /\ th[t].new_news_count > 0
        /\ th[t].logged = 1
        /\ last_fetched[th[t].source] = now

\* C23: when no source is enabled, or the source list cannot be loaded,
\* fetch_all_feeds returns an empty list, issues no GET and leaves table
\* news, fetch_logs and the monitor's counters as they were.
C23_NoSourcesNoEffect ==
    /\ [](\A t \in Threads :
            (enabled = {} \/ ~readable) =>
               /\ th[t].pc \in {"idle", "returned"}
               /\ th[t].results = <<>>
               /\ th[t].gets = 0)
    /\ [][(enabled = {} \/ ~readable) =>
            /\ news' = news
            /\ fetch_logs' = fetch_logs
            /\ metrics' = metrics]_vars

\* C23's case: sources are enabled in a file that cannot be read, and the
\* cycle has returned.
C23_Witness ==
    \E t \in Threads :
        /\ th[t].pc = "returned"
        /\ enabled # {}
        /\ ~readable

\* the phase of the state machine a running task is in
Phase(t) ==
    CASE th[t].pc \in {"request", "get"} -> "FETCHING"
      [] th[t].pc = "parse" -> "PARSING"
      [] th[t].pc \in {"entries", "save", "select"} -> "PROCESSING"
      [] th[t].pc \in {"update_status", "insert_log", "record"} ->
            IF th[t].success THEN "SUCCESS" ELSE "FAILED"
      [] OTHER -> "PENDING"

\* the moves between phases the state machine allows; a task leaves its end
\* phase when its summary is returned and the loop turns to the next task
PhaseMoves ==
    {<<"PENDING", "FETCHING">>, <<"FETCHING", "PARSING">>,
     <<"PARSING", "PROCESSING">>, <<"PROCESSING", "SUCCESS">>,
     <<"FETCHING", "FAILED">>, <<"PARSING", "FAILED">>,
     <<"PROCESSING", "FAILED">>,
     <<"SUCCESS", "PENDING">>, <<"FAILED", "PENDING">>}

\* the runs all threads have finished
FinishedRuns == Len(th["timer"].results) + Len(th["manual"].results)

\* C26: a run goes through PENDING, FETCHING, PARSING, PROCESSING in that
\* order and ends in exactly one of SUCCESS and FAILED; entries are handled
\* and rows written only after the run's GET and parse succeeded; the run
\* returns exactly one summary, and the monitor records exactly one outcome
\* per run.
C26_RunStateMachine ==
    /\ [](\A t \in Threads :
            /\ Phase(t) = "PROCESSING" => (th[t].gets = 1 /\ th[t].total_items > 0)
            /\ th[t].gets <= 1
            /\ \A i \in 1..Len(th[t].results) : "success" \in DOMAIN th[t].results[i])
    /\ [](metrics.total_feeds = FinishedRuns)
    /\ [][\A t \in Threads :
            /\ Phase(t)' # Phase(t) => <<Phase(t), Phase(t)'>> \in PhaseMoves
            /\ (th'[t] # th[t] /\ news' # news) => Phase(t) = "PROCESSING"
            /\ th'[t].results # th[t].results =>
                  /\ Phase(t) \in {"SUCCESS", "FAILED"}
                  /\ Len(th'[t].results) = Len(th[t].results) + 1
                  /\ th'[t].results[Len(th'[t].results)].success
                        = (Phase(t) = "SUCCESS")
                  /\ metrics'.total_feeds = metrics.total_feeds + 1
                  /\ metrics'.successful_feeds = metrics.successful_feeds
                        + (IF Phase(t) = "SUCCESS" THEN 1 ELSE 0)]_vars

\* C26's case: a cycle whose first run went through every phase to SUCCESS
\* and whose second run FAILED has returned, and the monitor has both.
C26_Witness ==
    \E t \in Threads :
        /\ th[t].pc = "returned"
        /\ Len(th[t].results) = 2
        /\ th[t].results[1].success
        /\ ~th[t].results[2].success
        /\ metrics.total_feeds = 2
        /\ metrics.failed_feeds = 1

\* C27: the entries of a run are handled one at a time in feed order, each
\* through standardize, validate, sanitize, dedup check and persist; so of
\* two valid entries of one feed with the same URL the earlier is persisted
\* and the later is found duplicate by the dedup check: no entry whose URL
\* an earlier entry of the run has stored gets past the check to _save_news
\* (with no other writer and no database error).
C27_LaterEntryFoundDuplicate ==
    \A t \in Threads :
        ( /\ th[t].pc = "save" /\ ~th[t].db_failed
          /\ \A u \in Threads \ {t} : th[u].pc = "idle" )
        => ~\E row \in news \ th[t].news_before : row.url = th[t].news_data.url

\* RSSService.get_monitor_metrics and get_health_status: the service asks
\* the RSSParser it constructed in its own __init__, whose RSSMonitor is
\* that parser's own (rss_parser.py line 277)
RSSService_get_monitor_metrics == service_metrics
RSSService_get_health_status == get_health_status(service_metrics)

\* C36: once a fetch cycle of the scheduler over n >= 1 enabled sources has
\* returned, the service's get_monitor_metrics() shows total_feeds grown by
\* n (from the 0 of construction) and its get_health_status() is not
\* "unknown".
C36_ServiceSeesFetchOutcomes ==
    \A t \in Threads :
        (th[t].pc = "returned" /\ Len(th[t].results) >= 1)
            => /\ RSSService_get_monitor_metrics.total_feeds >= Len(th[t].results)
               /\ RSSService_get_health_status # "unknown"

(***************************************************************************)
(* SpecHist: runs of the scheduler's tasks on a timer thread and runs of   *)
(* trigger_manual_fetch on a caller's thread, over one TaskMonitor whose   *)
(* history holds the completed records of earlier runs.                    *)
(***************************************************************************)
InitHist ==
    /\ InitNormIdle
    /\ InitRetryIdle
    /\ InitMonitorIdle
    /\ InitPipelineIdle
    /\ InitSchedIdle
    /\ InitRateIdle
    /\ InitDraftIdle
    /\ \E n \in Prefills :
          /\ task_history = CompletedRuns(n)
          /\ started = n
    /\ runner = [h \in Threads |-> RunnerIdle]
    /\ manual_result = "none"

NextHist ==
    \/ \E h \in Threads :
          \/ StartRun(h)
          \/ TrimCheck(h)
          \/ TrimAssign(h)
          \/ CheckTaskHealth(h)
          \/ Complete(h)
    \/ ManualRead

SpecHist == InitHist /\ [][NextHist]_vars

\* no thread is inside record_task_start
NoStartInProgress ==
    \A h \in Threads : runner[h].pc \notin {"appended", "assign"}

\* C24: task_history holds at most 100 records, and they are the most recent
\* ones in start order (stated for the states in which no record_task_start
\* call is under way).
C24_HistoryBounded ==
    NoStartInProgress =>
        /\ Len(task_history) <= max_history_size
        /\ Len(task_history) = IF started < max_history_size
                               THEN started ELSE max_history_size
        /\ \A i \in DOMAIN task_history :
              task_history[i].run = started - Len(task_history) + i

\* C30: trigger_manual_fetch returns the outcome of the run it made itself.
C30_ManualReturnsOwnOutcome ==
    runner["manual"].pc = "returned" => manual_result = runner["manual"].outcome

\* the threads whose last run has finished: its record_task_complete call
\* has returned
Finished ==
    {h \in Threads : runner[h].runs > 0 /\ runner[h].pc \in {"idle", "read", "returned"}}

\* C31: a run that has finished has its record in the history unless the
\* 100-entry bound has evicted it, and that record is completed and carries
\* the success flag the run itself passed to record_task_complete.
C31_RecordCarriesOwnOutcome ==
    \A h \in Finished :
        /\ runner[h].run > started - max_history_size
              => \E i \in DOMAIN task_history : task_history[i].run = runner[h].run
        /\ \A i \in DOMAIN task_history :
              task_history[i].run = runner[h].run
                  => /\ task_history[i].status = "completed"
                     /\ task_history[i].success = runner[h].outcome

\* the records the statistics of cutoff count whose run completed with
\* success = False
FailedRuns(history, cutoff) ==
    {i \in DOMAIN history : history[i].run >= cutoff /\ history[i].success = "False"}

\* C32: the failed_executions the health check gets is the number of
\* windowed records whose success flag is false; a run in progress, the
\* health check's own included, is not among them.
C32_FailedCountsOnlyFailures ==
    \A h \in Threads :
        runner[h].pc = "checked"
            => runner[h].task_stats.failed_executions =
                   Cardinality(FailedRuns(task_history, runner[h].task_stats.cutoff))

(***************************************************************************)
(* SpecFanOut: one fetch cycle over every source, with the fairness of a   *)
(* running thread: a step that can be taken is taken.                      *)
(***************************************************************************)
InitFanOut ==
    /\ InitNormIdle
    /\ InitRestIdle
    /\ InitMonitorIdle
    /\ active = {"timer"}
    /\ enabled = Sources
    /\ served = FeedEntries
    /\ db_faults = FALSE
    /\ readable = TRUE
    /\ service_metrics = NewMetrics
    /\ news = {}
    /\ last_fetched = [s \in Sources |-> 0]
    /\ fetch_logs = <<>>
    /\ th = [t \in Threads |-> ThreadIdle]
    /\ observed = [u \in ArticleUrls |-> 0]
    /\ raced = {}

SpecFanOut == InitFanOut /\ [][Next]_vars /\ WF_vars(Next)

\* the sources of the thread's cycle whose task the event loop has started
\* and which has not returned its result yet.  The loop hands control to
\* another task only where the running one awaits something that suspends;
\* the awaits of a run (lines 318, 324, 408, 412) are on coroutines that
\* never do.
RunningSources(t) ==
    IF th[t].pc \in {"idle", "gather", "returned"} THEN {} ELSE {th[t].source}

\* C25: within a cycle over at least two sources the runs overlap: one
\* source's GET is outstanding while another source's run has started and
\* not finished.  (The claim is that such a state can be reached; it is
\* stated here of each cycle, and no cycle reaches one.)
C25_RunsOverlap ==
    <>(\E t \in Threads :
          /\ th[t].pc = "get"
          /\ \E s \in RunningSources(t) : s # th[t].source)

\* C25's case: the GET of the first source's run is outstanding and the
\* second source's task, created before gather, has not been started.
C25_Witness ==
    \E t \in Threads :
        /\ th[t].pc = "get"
        /\ Len(th[t].pending) = 2

(***************************************************************************)
(* SpecRetry: one call of a function wrapped by retry_on_failure(n, d, b,  *)
(* E), for every n up to RetryLimit and every behaviour of the function    *)
(* over the n + 1 calls the wrapper can make.                              *)
(***************************************************************************)
Scripts(n) == [1..(n + 1) -> RaisedClasses \cup {"ok"}]

InitRetry ==
    /\ InitNormIdle
    /\ InitMonitorIdle
    /\ InitPipelineIdle
    /\ InitSchedIdle
    /\ InitRateIdle
    /\ InitDraftIdle
    /\ InitHistIdle
    /\ \E n \in 0..RetryLimit, d \in 1..2, b \in 1..2 :
          \E script \in Scripts(n), E \in {retry_exceptions, {"RSSFetchError"}} :
              retry = RetryCall(n, d, b, E, script)

NextRetry == CallFunc \/ SleepAndRetry \/ GiveUp

SpecRetry == InitRetry /\ [][NextRetry]_vars

RECURSIVE Pow(_, _)
Pow(base, i) == IF i = 0 THEN 1 ELSE base * Pow(base, i - 1)

\* the calls of the script that raise a listed class before the first call
\* that does anything else
RECURSIVE RetryableCalls(_, _)
RetryableCalls(script, E) ==
    IF script # <<>> /\ Head(script) \in E
    THEN 1 + RetryableCalls(Tail(script), E)
    ELSE 0

\* C38: once the wrapper is over, with k the number of leading calls that
\* raised a listed exception: if k <= n and call k + 1 returned, the function
\* was called k + 1 times, the waits were d * b^i for i = 0..k-1 and the
\* wrapper returned; if all n + 1 calls raised a listed exception, the last
\* one was re-raised after n waits; if the first call raised an exception
\* that is not listed, it propagated after that one call without a wait.
C38_RetryContract ==
    retry.pc \in {"returned", "raised"} =>
        LET k == RetryableCalls(retry.script, retry.E)
        IN  /\ (k <= retry.n /\ retry.script[k + 1] = "ok") =>
                  /\ retry.pc = "returned"
                  /\ retry.calls = k + 1
                  /\ retry.sleeps = [i \in 1..k |-> retry.d * Pow(retry.b, i - 1)]
            /\ k = retry.n + 1 =>
                  /\ retry.pc = "raised"
                  /\ retry.raised = retry.script[retry.n + 1]
                  /\ retry.calls = retry.n + 1
                  /\ Len(retry.sleeps) = retry.n
            /\ (retry.script[1] \notin retry.E \cup {"ok"}) =>
                  /\ retry.pc = "raised"
                  /\ retry.raised = retry.script[1]
                  /\ retry.calls = 1
                  /\ retry.sleeps = <<>>

\* C38's case: with three retries allowed and a backoff of 2 the function
\* raised a listed exception twice and then returned
C38_Witness ==
    /\ retry.pc = "returned"
    /\ retry.n = 3
    /\ retry.b = 2
    /\ retry.calls = 3
    /\ Len(retry.sleeps) = 2

====
